---- MODULE Spec2Model ----
(***************************************************************************)
(* Product sheet validator: the worker pool of validateUrls and the        *)
(* per-URL pipeline of validateProductPage (validator module), with the    *)
(* browser renderer of fetch.ts.                                            *)
(*                                                                          *)
(* Strings are sequences of text pieces (TLA+ strings); the empty string is *)
(* << >> and concatenation is \o.  A URL string is a record of its raw      *)
(* parts; UrlText gives its text.                                            *)
(*                                                                          *)
(* JavaScript runs each segment of code between two awaits to completion,  *)
(* so an action is one such segment: the answer of an awaited operation,   *)
(* the code that follows it up to the next await and, when the validation  *)
(* settles there, the worker's continuation (store, callback, next claim). *)
(* Only a validation that returns without awaiting leaves its worker       *)
(* suspended with a settled promise (pc "return"), resumed by Resume.      *)
(* The pause of delayMs before a request is part of awaiting the request.  *)
(*                                                                          *)
(* Spec runs validateUrls.  SpecPdf runs one call of isValidPdfLink on      *)
(* every answer its request can get.  SpecFetch runs one call of the       *)
(* retrying fetchPage (fetch.ts) from the validateProductPage that uses it. *)
(* SpecBrowser runs concurrent calls of renderProductPage and               *)
(* shutdownBrowser on the shared browserPromise.  SpecPath, SpecSame and    *)
(* SpecLink run normalizePath, isSameProductUrl and findDocumentationLink   *)
(* on bounded sets of arguments.  SpecRun adds the caller run() to Spec;    *)
(* SpecStall and SpecFair are Spec under fair scheduling of the workers.    *)
(* SpecWide adds to Spec an input longer than the pool, with a callback.    *)
(***************************************************************************)
EXTENDS Naturals, Sequences, FiniteSets, TLC

VARIABLES
    urls,              \* validateUrls argument: the input sequence
    validatePdfLinks,  \* validateUrls argument
    onOutcome,         \* validateUrls argument: "absent" or "present"
    net,               \* environment: "up" (any response), "down" (every render fails),
                       \* "moved" (every navigation ends at the URL or at a variant of it)
    status,            \* the promise of validateUrls: "init", "pending", "resolved", "rejected"
    currentIndex,      \* the shared cursor
    results,           \* the result Map: URL -> ValidationOutcome
    workers,           \* the worker closures, 0 .. workerCount-1
    notified,          \* the calls of onOutcome, in call order: the outcome passed, and
                       \* whether the map held it at that moment
    invocations,       \* per URL: number of validateProductPage calls
    trace,             \* per URL: the network operations issued for it, with their results
    probe,             \* one call of isValidPdfLink run on its own (SpecPdf)
    fetcher,           \* one call of the retrying fetchPage, with its caller (SpecFetch)
    browser,           \* the shared browser of fetch.ts and the calls that use it (SpecBrowser)
    pureCall,          \* one call of a pure function run on its own (SpecPath, SpecSame, SpecLink)
    run                \* the caller of validateUrls: where it is, and its list outcomes (SpecRun)

\* the state of validateUrls and its workers
poolVars == <<urls, validatePdfLinks, onOutcome, net, status, currentIndex, results,
              workers, notified, invocations, trace>>

\* the state of the functions that are run on their own
callVars == <<probe, fetcher, browser, pureCall, run>>

vars == <<poolVars, callVars>>

(***************************************************************************)
(* Bounds                                                                   *)
(***************************************************************************)
\* longest input explored with every response of the network
MaxUrls == 2
\* longest input explored at all (must exceed MAX_CONCURRENT_REQUESTS)
MaxWide == 9

MAX_CONCURRENT_REQUESTS == 8

(***************************************************************************)
(* Generic helpers                                                          *)
(***************************************************************************)
Min(a, b) == IF a <= b THEN a ELSE b

Range(s) == {s[i] : i \in DOMAIN s}

Last(s) == s[Len(s)]

Front(s) == SubSeq(s, 1, Len(s) - 1)

\* Map.prototype.set
MapSet(m, k, v) == [x \in (DOMAIN m) \cup {k} |-> IF x = k THEN v ELSE m[x]]

\* String.prototype.toLowerCase on one character
LowerChar(c) ==
    CASE c = "A" -> "a"
      [] c = "S" -> "s"
      [] c = ".PDF" -> ".pdf"
      [] c = "Application/PDF" -> "application/pdf"
      [] OTHER -> c

toLowerCase(s) == [i \in DOMAIN s |-> LowerChar(s[i])]

\* String.prototype.replace(/\/+/g, '/'): every run of slashes becomes one slash
RECURSIVE CollapseSlashes(_)
CollapseSlashes(s) ==
    IF Len(s) <= 1 THEN s
    ELSE IF s[1] = "/" /\ s[2] = "/" THEN CollapseSlashes(Tail(s))
    ELSE <<s[1]>> \o CollapseSlashes(Tail(s))

\* String.prototype.replace(/\/$/, ''): one trailing slash is removed
StripTrailingSlash(s) == IF Len(s) > 0 /\ Last(s) = "/" THEN Front(s) ELSE s

\* String.prototype.trim
RECURSIVE trim(_)
trim(s) ==
    IF Len(s) = 0 THEN s
    ELSE IF s[1] = " " THEN trim(Tail(s))
    ELSE IF Last(s) = " " THEN trim(Front(s))
    ELSE s

\* String.prototype.includes, for a searched text that is one piece
includes(s, piece) == \E i \in DOMAIN s : s[i] = piece

\* /\.pdf(?:[?#]|$)/i.test(s): somewhere in s, ".pdf" in any case, followed by
\* "?", by "#" or by the end of s
PdfUrlPattern(s) ==
    \E i \in DOMAIN s :
        /\ LowerChar(s[i]) = ".pdf"
        /\ i = Len(s) \/ s[i + 1] \in {"?", "#"}

\* Array.prototype.join
RECURSIVE join(_, _)
join(parts, sep) ==
    IF Len(parts) = 0 THEN << >>
    ELSE IF Len(parts) = 1 THEN parts[1]
    ELSE parts[1] \o <<sep>> \o join(Tail(parts), sep)

(***************************************************************************)
(* URL strings                                                              *)
(***************************************************************************)
\* a URL string "scheme://host/path"; scheme "" is a text with no scheme.
\* host is the text up to the path: the host name and, as its last piece,
\* the port if there is one; path is the text from the path on: the path,
\* then the query string from its "?", then the fragment from its "#"
Url(scheme, host, path) == [scheme |-> scheme, host |-> host, path |-> path]

UrlText(u) == IF u.scheme = "" THEN u.path ELSE <<u.scheme, "://">> \o u.host \o u.path

\* the ports: one in range, one beyond 65535
Ports == {":8080", ":99999"}

\* the host without its port
HostName(host) == IF host # << >> /\ Last(host) \in Ports THEN Front(host) ELSE host

\* the path without query string and fragment
RECURSIVE PathOnly(_)
PathOnly(path) ==
    IF path = << >> \/ Head(path) \in {"?", "#"} THEN << >>
    ELSE <<Head(path)>> \o PathOnly(Tail(path))

\* new URL(text): throws (ok FALSE) on a text without scheme or with a port
\* out of range; hostname is the lower-cased host without the port, pathname
\* the path without query string and fragment, "/" for the empty path of an
\* http(s) or ftp URL
ParseUrl(u) ==
    IF u.scheme = "" \/ (u.host # << >> /\ Last(u.host) = ":99999")
    THEN [ok |-> FALSE, protocol |-> "", hostname |-> << >>, pathname |-> << >>]
    ELSE [ok |-> TRUE,
          protocol |-> u.scheme,
          hostname |-> toLowerCase(HostName(u.host)),
          pathname |-> IF PathOnly(u.path) = << >> /\ u.scheme \in {"http", "https", "ftp"}
                       THEN <<"/">> ELSE PathOnly(u.path)]

\* a variant of isHttpUrl that accepts every URL that parses
isHttpUrlAnyScheme(url) == ParseUrl(url).ok

isHttpUrl(url) ==
    LET parsed == ParseUrl(url)
    IN  IF ~parsed.ok THEN FALSE
        ELSE parsed.protocol = "http" \/ parsed.protocol = "https"

\* a variant of normalizePath that strips the trailing slash before it
\* collapses the runs of slashes
normalizePathStripFirst(pathname) ==
    IF pathname = <<"/">> THEN pathname
    ELSE toLowerCase(CollapseSlashes(StripTrailingSlash(pathname)))

normalizePath(pathname) ==
    IF pathname = <<"/">> THEN pathname
    ELSE toLowerCase(StripTrailingSlash(CollapseSlashes(pathname)))

\* a variant of isSameProductUrl that compares the protocol too
isSameProductUrlAndProtocol(requestedUrl, finalUrl) ==
    LET requested == ParseUrl(requestedUrl)
        final == ParseUrl(finalUrl)
    IN  IF ~requested.ok \/ ~final.ok THEN FALSE
        ELSE IF requested.protocol # final.protocol THEN FALSE
        ELSE IF requested.hostname # final.hostname THEN FALSE
        ELSE normalizePath(requested.pathname) = normalizePath(final.pathname)

isSameProductUrl(requestedUrl, finalUrl) ==
    LET requested == ParseUrl(requestedUrl)
        final == ParseUrl(finalUrl)
    IN  IF ~requested.ok \/ ~final.ok THEN FALSE
        ELSE IF requested.hostname # final.hostname THEN FALSE
        ELSE normalizePath(requested.pathname) = normalizePath(final.pathname)

\* the text has a scheme: "scheme://..."
HasScheme(text) == Len(text) >= 2 /\ text[2] = "://"

\* new URL(text) succeeds: a scheme, then a host that is not empty
ParsesAsUrl(text) == HasScheme(text) /\ Len(text) >= 3 /\ text[3] \notin {"/", "?", "#"}

\* the position of the last piece of the host in a text that parses
RECURSIVE HostEnd(_, _)
HostEnd(text, i) ==
    IF i >= Len(text) \/ text[i + 1] \in {"/", "?", "#"} THEN i ELSE HostEnd(text, i + 1)

\* the position of the last "/" of the path of a text that parses (0 if none)
RECURSIVE LastSlash(_, _, _)
LastSlash(text, i, found) ==
    IF i > Len(text) \/ text[i] \in {"?", "#"} THEN found
    ELSE LastSlash(text, i + 1, IF text[i] = "/" THEN i ELSE found)

\* new URL(maybeRelative, baseUrl).toString(), or maybeRelative when it throws
resolveUrl(baseUrl, maybeRelative) ==
    IF HasScheme(maybeRelative) THEN maybeRelative
    ELSE IF ~ParsesAsUrl(baseUrl) THEN maybeRelative
    ELSE LET origin == SubSeq(baseUrl, 1, HostEnd(baseUrl, 3))
             slash == LastSlash(baseUrl, Len(origin) + 1, 0)
         IN  IF maybeRelative # << >> /\ maybeRelative[1] = "/" THEN origin \o maybeRelative
             ELSE IF slash = 0 THEN origin \o <<"/">> \o maybeRelative
             ELSE SubSeq(baseUrl, 1, slash) \o maybeRelative

(***************************************************************************)
(* Rendered pages and the documentation extractor                           *)
(***************************************************************************)
\* the value null / undefined of a string-valued expression (falsy, like "")
Null == << >>

SafetyClasses == {"product-documentation__link", "product-documentation__link--safety-data-sheet"}

TechnicalClasses == {"product-documentation__link", "product-documentation__link--technical-data-sheet"}

\* an element: its tag, its class attribute split at whitespace (<< >> when the
\* attribute is absent or empty) and its href attribute (<< >> when absent)
Element(tag, class, href) == [tag |-> tag, class |-> class, href |-> href]

\* a page's HTML: one container element with its direct children; section
\* tells whether the container carries the four classes of the selector
\* (it is the documentation section) or not (the page has no such section)
Html(section, children) == [section |-> section, children |-> children]

\* $('.page__content.rte.text-subtext.product-documentation').first():
\* << >> for null, else <<the section's children>>
findDocumentationSection(html) == IF html.section THEN <<html.children>> ELSE << >>

findDocumentationLink(section, requiredClasses) ==
    LET Matches(element) ==
            /\ element.tag = "a"
            /\ element.class # << >>
            /\ requiredClasses \subseteq Range(SelectSeq(element.class, LAMBDA c : c # ""))
        link == SelectSeq(section, Matches)
    IN  IF Len(link) = 0 THEN Null
        ELSE LET href == trim(link[1].href)
             IN  IF Len(href) > 0 THEN href ELSE Null

\* a variant of renderProductPage that flags a page as redirected when it is
\* not the same product
renderProductPageSameProduct(url, finalUrl, html) ==
    [html |-> html, finalUrl |-> finalUrl, redirected |-> ~isSameProductUrl(url, finalUrl)]

\* renderProductPage, on a navigation that ends at finalUrl with content html
renderProductPage(url, finalUrl, html) ==
    [html |-> html, finalUrl |-> finalUrl, redirected |-> finalUrl # url]

\* the settlement of a call that returns a boolean: its value, or an exception
Value(b) == [raised |-> FALSE, value |-> b]

Raised == [raised |-> TRUE, value |-> FALSE]

\* a variant of isValidPdfLink without its try/catch
isValidPdfLinkNoCatch(baseUrl, href, response) ==
    IF response.threw THEN Raised
    ELSE IF ~response.ok THEN Value(FALSE)
    ELSE Value(\/ includes(toLowerCase(response.contentType), "application/pdf")
               \/ includes(toLowerCase(response.contentDisposition), "application/pdf")
               \/ includes(toLowerCase(response.contentDisposition), ".pdf")
               \/ PdfUrlPattern(response.url))

\* isValidPdfLink, given the answer of its request to resolveUrl(baseUrl, href):
\* the request threw, or answered `response` (response.url is a string, never
\* null: the alternative of line 218 is not taken)
isValidPdfLink(baseUrl, href, response) ==
    IF response.threw THEN Value(FALSE)
    ELSE IF ~response.ok THEN Value(FALSE)
    ELSE LET contentType == response.contentType
             contentDisposition == response.contentDisposition
             finalUrl == response.url
             isPdfHeader == \/ includes(toLowerCase(contentType), "application/pdf")
                            \/ includes(toLowerCase(contentDisposition), "application/pdf")
                            \/ includes(toLowerCase(contentDisposition), ".pdf")
             isPdfUrl == PdfUrlPattern(finalUrl)
         IN  Value(isPdfHeader \/ isPdfUrl)

(***************************************************************************)
(* validateProductPage, cut at its await points                             *)
(***************************************************************************)
MsgInvalidUrl == <<"URL invalide ou protocole non supporte">>

MsgSectionMissing == <<"Section product-documentation absente (fiche de securite et technique manquantes)">>

MsgSafetyInvalid == <<"Lien vers la fiche de securite invalide">>

MsgSafetyMissing == <<"Fiche de securite manquante">>

MsgTechnicalInvalid == <<"Lien vers la fiche technique invalide">>

MsgTechnicalMissing == <<"Fiche technique manquante">>

\* a variant of MsgLoadFailed that is the bare reason
MsgLoadFailedBare(reason) == reason

MsgLoadFailed(reason) == <<"Echec du chargement de la page (">> \o reason \o <<")">>

MsgRedirected(target) == <<"Redirection vers ">> \o UrlText(target)

Outcome(url, result, comments) == [url |-> url, result |-> result, comments |-> comments]

NoOutcome == Outcome(Url("", << >>, << >>), "", << >>)

\* the locals kept across the awaits of the probes: page.finalUrl (as text),
\* safetyHref and technicalHref
Links(base, safety, technical) == [base |-> base, safety |-> safety, technical |-> technical]

NoLinks == Links(<< >>, Null, Null)

\* the invocation has returned `outcome`
Returned(outcome) ==
    [pc |-> "return", outcome |-> outcome, extraComments |-> << >>, links |-> NoLinks]

\* the invocation has thrown (its promise is rejected)
Thrown == [pc |-> "throw", outcome |-> NoOutcome, extraComments |-> << >>, links |-> NoLinks]

\* the invocation is suspended at the await named pc
Awaiting(pc, extraComments, links) ==
    [pc |-> pc, outcome |-> NoOutcome, extraComments |-> extraComments, links |-> links]

\* lines 126-138
Verdict(url, extraComments) ==
    IF Len(extraComments) > 0
    THEN Returned(Outcome(url, "KO", join(extraComments, " ; ")))
    ELSE Returned(Outcome(url, "OK", << >>))

\* a variant of TechnicalCheck that probes a present link whatever the flag
TechnicalCheckAlwaysProbes(url, pdf, extraComments, links) ==
    IF links.technical # Null
    THEN Awaiting("technical", extraComments, links)
    ELSE Verdict(url, Append(extraComments, MsgTechnicalMissing))

\* lines 110-124, up to the await of the technical probe
TechnicalCheck(url, pdf, extraComments, links) ==
    IF links.technical # Null
    THEN IF pdf THEN Awaiting("technical", extraComments, links)
         ELSE Verdict(url, extraComments)
    ELSE Verdict(url, Append(extraComments, MsgTechnicalMissing))

\* lines 46-62: the call, up to the await of the render
ValidationStart(url) ==
    IF ~isHttpUrl(url) THEN Returned(Outcome(url, "KO", MsgInvalidUrl))
    ELSE Awaiting("render", << >>, NoLinks)

\* a variant of AfterRenderThrows that handles Error values only and lets any
\* other thrown value through
AfterRenderThrowsRethrows(url, error) ==
    IF error.isError
    THEN Returned(Outcome(url, "KO", MsgLoadFailed(error.message)))
    ELSE Thrown

\* a variant of AfterRenderThrows whose comment does not carry the reason
AfterRenderThrowsNoReason(url, error) ==
    Returned(Outcome(url, "KO", <<"Echec du chargement de la page">>))

\* lines 63-70: the render has thrown `error`
AfterRenderThrows(url, error) ==
    LET reason == IF error.isError THEN error.message ELSE <<"Erreur inconnue">>
    IN  Returned(Outcome(url, "KO", MsgLoadFailed(reason)))

\* a variant of RedirectCheckFails that does not read the redirected flag
RedirectCheckFailsNoFlag(url, page) == ~isSameProductUrl(url, page.finalUrl)

\* line 72
RedirectCheckFails(url, page) == ~isSameProductUrl(url, page.finalUrl) \/ page.redirected

\* a variant of AfterRender that takes the page's container for the
\* documentation section without testing its classes
AfterRenderAnyContainer(url, pdf, page) ==
    IF RedirectCheckFails(url, page)
    THEN Returned(Outcome(url, "KO", MsgRedirected(page.finalUrl)))
    ELSE LET safetyHref == findDocumentationLink(page.html.children, SafetyClasses)
             technicalHref == findDocumentationLink(page.html.children, TechnicalClasses)
             links == Links(UrlText(page.finalUrl), safetyHref, technicalHref)
         IN  IF safetyHref # Null
             THEN IF pdf THEN Awaiting("safety", << >>, links)
                  ELSE TechnicalCheck(url, pdf, << >>, links)
             ELSE TechnicalCheck(url, pdf, <<MsgSafetyMissing>>, links)

\* a variant of AfterRender that probes the technical sheet first
AfterRenderTechnicalFirst(url, pdf, page) ==
    IF RedirectCheckFails(url, page)
    THEN Returned(Outcome(url, "KO", MsgRedirected(page.finalUrl)))
    ELSE LET documentationSection == findDocumentationSection(page.html)
         IN  IF documentationSection = << >>
             THEN Returned(Outcome(url, "KO", MsgSectionMissing))
             ELSE LET safetyHref == findDocumentationLink(documentationSection[1], SafetyClasses)
                      technicalHref == findDocumentationLink(documentationSection[1], TechnicalClasses)
                      links == Links(UrlText(page.finalUrl), safetyHref, technicalHref)
                  IN  IF technicalHref # Null /\ pdf
                      THEN Awaiting("technical",
                                    IF safetyHref # Null THEN << >> ELSE <<MsgSafetyMissing>>, links)
                      ELSE IF safetyHref # Null
                      THEN IF pdf THEN Awaiting("safety", << >>, links)
                           ELSE TechnicalCheck(url, pdf, << >>, links)
                      ELSE TechnicalCheck(url, pdf, <<MsgSafetyMissing>>, links)

\* lines 72-108: the render has returned `page`; up to the next await.
\* findDocumentationLink is pure and the section is never changed, so the
\* technical href is looked up here and carried with the other locals, not
\* the section.
AfterRender(url, pdf, page) ==
    IF RedirectCheckFails(url, page)
    THEN Returned(Outcome(url, "KO", MsgRedirected(page.finalUrl)))
    ELSE LET documentationSection == findDocumentationSection(page.html)
         IN  IF documentationSection = << >>
             THEN Returned(Outcome(url, "KO", MsgSectionMissing))
             ELSE LET safetyHref == findDocumentationLink(documentationSection[1], SafetyClasses)
                      technicalHref == findDocumentationLink(documentationSection[1], TechnicalClasses)
                      links == Links(UrlText(page.finalUrl), safetyHref, technicalHref)
                  IN  IF safetyHref # Null
                      THEN IF pdf THEN Awaiting("safety", << >>, links)
                           ELSE TechnicalCheck(url, pdf, << >>, links)
                      ELSE TechnicalCheck(url, pdf, <<MsgSafetyMissing>>, links)

\* a variant of AfterSafetyProbe that stops at an invalid safety sheet
AfterSafetyProbeShortCircuit(url, pdf, v, safetyValid) ==
    IF ~safetyValid THEN Verdict(url, Append(v.extraComments, MsgSafetyInvalid))
    ELSE TechnicalCheck(url, pdf, v.extraComments, v.links)

\* lines 101-110: the safety probe has answered
AfterSafetyProbe(url, pdf, v, safetyValid) ==
    TechnicalCheck(url, pdf,
                   IF ~safetyValid THEN Append(v.extraComments, MsgSafetyInvalid)
                   ELSE v.extraComments,
                   v.links)

\* a variant of AfterTechnicalProbe that does not look at the probe's answer
AfterTechnicalProbeIgnored(url, v, technicalValid) == Verdict(url, v.extraComments)

\* lines 117-124: the technical probe has answered
AfterTechnicalProbe(url, v, technicalValid) ==
    Verdict(url, IF ~technicalValid THEN Append(v.extraComments, MsgTechnicalInvalid)
                 ELSE v.extraComments)

(***************************************************************************)
(* Inputs and the responses of the network                                  *)
(***************************************************************************)
\* "not-a-url": no scheme, new URL throws
Malformed == Url("", << >>, <<"a">>)

FtpUrl == Url("ftp", <<"s">>, <<"/", "a">>)

ProductA == Url("https", <<"s">>, <<"/", "a">>)

ProductB == Url("http", <<"s">>, <<"/", "A", "/">>)

RichUrls == <<ProductA, Malformed, ProductB, FtpUrl>>

\* n distinct product URLs: https://s/a, https://s/aa, ...
Products(n) == [i \in 1 .. n |-> Url("https", <<"s">>, <<"/">> \o [j \in 1 .. i |-> "a"])]

\* the subsequences of s of length n (its elements are distinct, and so are theirs)
RECURSIVE SubSeqs(_, _)
SubSeqs(s, n) ==
    IF n = 0 THEN {<< >>}
    ELSE IF Len(s) < n THEN {}
    ELSE SubSeqs(Front(s), n) \cup {Append(t, Last(s)) : t \in SubSeqs(Front(s), n - 1)}

\* where a navigation to u may end: u itself, u with the trailing slash of its
\* path toggled, the home page of its host, the same path on another host
FinalUrls(u) ==
    {u,
     [u EXCEPT !.path = IF Len(u.path) > 1 /\ Last(u.path) = "/"
                        THEN Front(u.path) ELSE Append(u.path, "/")],
     [u EXCEPT !.path = <<"/">>],
     [u EXCEPT !.host = <<"o">>]}

\* where a navigation to u ends when the site answers under a variant of u:
\* u itself, u with a trailing slash added, with its first slash doubled, with
\* its path in lower case, with the other of http and https, with a query string
MovedUrls(u) ==
    {u,
     [u EXCEPT !.path = Append(@, "/")],
     [u EXCEPT !.path = <<"/">> \o @],
     [u EXCEPT !.path = toLowerCase(@)],
     [u EXCEPT !.scheme = IF @ = "http" THEN "https" ELSE "http"],
     [u EXCEPT !.path = @ \o <<"?", "q">>]}

\* longest list of children of the documentation section
MaxChildren == 2

Children ==
    {Element("a", <<"product-documentation__link", "product-documentation__link--safety-data-sheet">>, <<"x">>),
     Element("a", <<"", "product-documentation__link--technical-data-sheet", "product-documentation__link">>, <<" ", "x", " ">>),
     Element("a", <<"product-documentation__link", "product-documentation__link--safety-data-sheet">>, <<" ">>),
     Element("a", <<"product-documentation__link">>, <<"x">>)}

\* the pages: a documentation section with up to MaxChildren children, or no
\* section and a container that is empty or holds one child
Htmls ==
    {Html(TRUE, c) : c \in UNION {[1 .. n -> Children] : n \in 0 .. MaxChildren}}
    \cup {Html(FALSE, c) : c \in UNION {[1 .. n -> Children] : n \in 0 .. 1}}

NoError == [isError |-> FALSE, message |-> << >>]

NetDown == [isError |-> TRUE, message |-> <<"net::ERR_INTERNET_DISCONNECTED">>]

\* what page.goto may throw: an Error with a message, an Error with an empty
\* message, a value that is no Error
RenderErrors == {NetDown, [isError |-> TRUE, message |-> << >>], NoError}

\* the request of a probe threw (transport failure, or a URL fetch rejects)
Threw == [threw |-> TRUE, ok |-> FALSE, contentType |-> << >>,
          contentDisposition |-> << >>, url |-> << >>]

\* values of the content-type header (<< >>: no such header)
ContentTypes == {<< >>, <<"text/html">>, <<"Application/PDF", "; charset=binary">>}

\* values of the content-disposition header (<< >>: no such header)
ContentDispositions ==
    {<< >>, <<"attachment">>, <<"attachment; filename=", "a", ".PDF">>,
     <<"inline; type=", "application/pdf">>}

\* where a request to `input` may end after its redirects
ResponseUrls(input) ==
    {input,
     <<"https", "://", "s", "/", "x", ".pdf">>,
     <<"https", "://", "s", "/", "x", ".PDF", "?", "v">>,
     <<"https", "://", "s", "/", "x", ".pdf", "/", "y">>,
     <<"https", "://", "s", "/", "d", "?", "f", ".pdf">>,
     <<"https", "://", "s", "/", "d", "?", "f", ".pdf", "&", "v">>}

\* the answers of a HEAD request to `input`: fetch rejects a text that is no
\* http(s) URL; any other request may fail or be answered
ProbeResponses(input) ==
    IF ParsesAsUrl(input) /\ input[1] \in {"http", "https"}
    THEN {Threw}
         \cup [threw : {FALSE}, ok : BOOLEAN, contentType : ContentTypes,
                contentDisposition : ContentDispositions, url : ResponseUrls(input)]
    ELSE {Threw}

\* the answers the worker pool is run with: a failed request, and the
\* responses with no content-disposition header, with or without a PDF
\* content type, that end at the requested URL or at a URL in ".pdf"
\* (isValidPdfLink is run on every answer of ProbeResponses in SpecPdf)
PoolProbeResponses(input) ==
    {r \in ProbeResponses(input) :
        \/ r.threw
        \/ /\ r.contentDisposition = << >>
           /\ r.contentType # <<"text/html">>
           /\ r.url \in {input, <<"https", "://", "s", "/", "x", ".pdf">>}}

(***************************************************************************)
(* The retrying fetchPage (fetch.ts)                                        *)
(***************************************************************************)
MAX_ATTEMPTS == 5

BASE_BACKOFF_MS == 500

\* JITTER_RATIO = 0.2, in hundredths
JITTER_RATIO == 20

\* the values of Math.random(), in hundredths
Randoms == {0, 50, 99}

\* 2 ** n
RECURSIVE Pow2(_)
Pow2(n) == IF n = 0 THEN 1 ELSE 2 * Pow2(n - 1)

\* baseDelay * JITTER_RATIO * Math.random(), in milliseconds
Jitter(baseDelay, random) == (baseDelay * JITTER_RATIO * random) \div 10000

Digits == <<"0", "1", "2", "3", "4", "5", "6", "7", "8", "9">>

IsDigit(c) == \E d \in DOMAIN Digits : Digits[d] = c

DigitValue(c) == (CHOOSE d \in DOMAIN Digits : Digits[d] = c) - 1

\* the number written by the leading digits of s, after the value n
RECURSIVE LeadingDigits(_, _)
LeadingDigits(s, n) ==
    IF s = << >> \/ ~IsDigit(s[1]) THEN n
    ELSE LeadingDigits(Tail(s), 10 * n + DigitValue(s[1]))

NaN == [finite |-> FALSE, value |-> 0]

\* Number.parseFloat on a text of digits and other characters
parseFloat(s) ==
    IF s = << >> \/ ~IsDigit(s[1]) THEN NaN
    ELSE [finite |-> TRUE, value |-> LeadingDigits(s, 0)]

\* the decimal text of an HTTP status
StatusText(code) ==
    CASE code = 404 -> "404"
      [] code = 429 -> "429"
      [] code = 503 -> "503"

Error(message) == [isError |-> TRUE, message |-> message]

\* line 85: an Error as it is, any other value as new Error(String(value))
AsError(error) == IF error.isError THEN error ELSE Error(error.message)

\* what an attempt's request may do: answer a page (an ok response whose body
\* is read), answer a status that is not ok, or fail (fetch or the reading of
\* the body rejects)
PageAnswer(finalUrl, redirected, html) ==
    [kind |-> "page", status |-> 200, retryAfter |-> Null, error |-> NoError,
     finalUrl |-> finalUrl, redirected |-> redirected, html |-> html]

StatusAnswer(code, retryAfter) ==
    [kind |-> "status", status |-> code, retryAfter |-> retryAfter, error |-> NoError,
     finalUrl |-> Malformed, redirected |-> FALSE, html |-> Html(FALSE, << >>)]

FailureAnswer(error) ==
    [kind |-> "failure", status |-> 0, retryAfter |-> Null, error |-> error,
     finalUrl |-> Malformed, redirected |-> FALSE, html |-> Html(FALSE, << >>)]

\* the bodies the site serves for a product page: one with the documentation
\* section and both sheets, one without the section
PageHtmls ==
    {Html(TRUE, <<Element("a", <<"product-documentation__link",
                                 "product-documentation__link--safety-data-sheet">>, <<"x">>),
                  Element("a", <<"product-documentation__link",
                                 "product-documentation__link--technical-data-sheet">>, <<"y">>)>>),
     Html(FALSE, << >>)}

\* values of the retry-after header: none, seconds, an HTTP date
RetryAfterHeaders == {Null, <<"2">>, <<"W", "e", "d">>}

\* what fetch may throw: an Error, a value that is no Error
TransportErrors == {Error(<<"fetch failed">>), [isError |-> FALSE, message |-> <<"aborted">>]}

FetchAnswers(url) ==
    {PageAnswer(url, FALSE, html) : html \in PageHtmls}
    \cup {PageAnswer([url EXCEPT !.host = <<"o">>], TRUE, html) : html \in PageHtmls}
    \cup {StatusAnswer(code, h) : code \in {404, 429, 503}, h \in RetryAfterHeaders}
    \cup {FailureAnswer(e) : e \in TransportErrors}

\* what the log keeps of an answer
Logged(answer) == [kind |-> answer.kind, status |-> answer.status, error |-> answer.error]

\* the sleep a call is in: the attempt it follows, its base delay and jitter,
\* the line that started it (83 or 91) and the retry-after header read
Wait(after, baseDelay, jitter, line, retryAfter) ==
    [after |-> after, baseDelay |-> baseDelay, jitter |-> jitter, line |-> line,
     retryAfter |-> retryAfter]

NoWait == Wait(0, 0, 0, 0, Null)

\* the caller (validateProductPage of index.ts): fetchPage has returned `page`;
\* up to the await of fromURL
AfterFetchPage(url, page) ==
    IF RedirectCheckFails(url, page)
    THEN Returned(Outcome(url, "KO", MsgRedirected(page.finalUrl)))
    ELSE Awaiting("fromURL", << >>, NoLinks)

\* the caller: fetchPage has thrown `error`, caught by the catch around the
\* whole validation
AfterFetchPageThrows(url, error) ==
    LET reason == IF error.isError THEN error.message ELSE <<"Erreur inconnue">>
    IN  Returned(Outcome(url, "KO", MsgLoadFailed(reason)))

\* no page has been returned
NoPage == [html |-> Html(FALSE, << >>), finalUrl |-> Malformed, redirected |-> FALSE]

\* the caller (index.ts, lines 100-154): fromURL(url) has returned the document
\* `loaded`; the section and the links are searched in it, the probes are
\* based on page.finalUrl; up to the await of the first probe
AfterFromUrl(url, pdf, page, loaded) ==
    LET documentationSection == findDocumentationSection(loaded)
    IN  IF documentationSection = << >>
        THEN Returned(Outcome(url, "KO", MsgSectionMissing))
        ELSE LET safetyHref == findDocumentationLink(documentationSection[1], SafetyClasses)
                 technicalHref == findDocumentationLink(documentationSection[1], TechnicalClasses)
                 links == Links(UrlText(page.finalUrl), safetyHref, technicalHref)
             IN  IF safetyHref # Null
                 THEN IF pdf THEN Awaiting("safety", << >>, links)
                      ELSE TechnicalCheck(url, pdf, << >>, links)
                 ELSE TechnicalCheck(url, pdf, <<MsgSafetyMissing>>, links)

\* line 95: the loop is left without a page; fetchPage throws, and its caller
\* settles
GiveUp(f) ==
    LET error == IF f.lastError # NoError THEN f.lastError ELSE Error(<<"Requete echouee">>)
    IN  [f EXCEPT !.pc = "raised", !.error = error, !.wait = NoWait,
                  !.validation = AfterFetchPageThrows(f.url, error)]

\* lines 84-92: the catch of the loop body
Catch(f, error, random) ==
    LET caught == [f EXCEPT !.lastError = AsError(error)]
        backoff == BASE_BACKOFF_MS * Pow2(f.attempt - 1)
    IN  IF f.attempt >= MAX_ATTEMPTS THEN GiveUp(caught)
        ELSE [caught EXCEPT !.pc = "sleep",
                            !.wait = Wait(f.attempt, backoff, Jitter(backoff, random), 91, Null)]

\* a variant of AfterResponse whose backoff grows by BASE_BACKOFF_MS per attempt
AfterResponseLinear(f, answer, random) ==
    IF answer.kind = "page"
    THEN LET page == [html |-> answer.html, finalUrl |-> answer.finalUrl,
                      redirected |-> answer.redirected]
         IN  [f EXCEPT !.pc = "returned", !.page = page, !.loads = @ + 1,
                       !.validation = AfterFetchPage(f.url, page)]
    ELSE LET shouldRetry == answer.status = 429 \/ (answer.status >= 500 /\ answer.status < 600)
         IN  IF ~shouldRetry
             THEN Catch(f, Error(<<"statut HTTP ", StatusText(answer.status)>>), random)
             ELSE LET baseDelay == BASE_BACKOFF_MS * f.attempt
                  IN  [f EXCEPT !.pc = "sleep",
                                !.wait = Wait(f.attempt, baseDelay, Jitter(baseDelay, random),
                                              83, answer.retryAfter)]

\* lines 65-83: the request of the attempt is answered by a response
AfterResponse(f, answer, random) ==
    IF answer.kind = "page"
    THEN LET page == [html |-> answer.html, finalUrl |-> answer.finalUrl,
                      redirected |-> answer.redirected]
         IN  [f EXCEPT !.pc = "returned", !.page = page, !.loads = @ + 1,
                       !.validation = AfterFetchPage(f.url, page)]
    ELSE LET shouldRetry == answer.status = 429 \/ (answer.status >= 500 /\ answer.status < 600)
         IN  IF ~shouldRetry
             THEN Catch(f, Error(<<"statut HTTP ", StatusText(answer.status)>>), random)
             ELSE LET retryAfterHeader == answer.retryAfter
                      retryAfterSeconds == IF retryAfterHeader # Null
                                           THEN parseFloat(retryAfterHeader) ELSE NaN
                      baseDelay == IF retryAfterSeconds.finite
                                   THEN retryAfterSeconds.value * 1000
                                   ELSE BASE_BACKOFF_MS * Pow2(f.attempt - 1)
                  IN  [f EXCEPT !.pc = "sleep",
                                !.wait = Wait(f.attempt, baseDelay, Jitter(baseDelay, random),
                                              83, retryAfterHeader)]

(***************************************************************************)
(* The record of network operations (history)                               *)
(***************************************************************************)
Event(op, res, error, finalUrl, redirected, section, safety, technical) ==
    [op |-> op, res |-> res, error |-> error, finalUrl |-> finalUrl,
     redirected |-> redirected, section |-> section, safety |-> safety,
     technical |-> technical]

\* an operation issued and not yet answered
Pending(op) == Event(op, "pending", NoError, Malformed, FALSE, FALSE, FALSE, FALSE)

\* a probe answered: the request threw, or isValidPdfLink's value on the response
Probed(op, baseUrl, href, response) ==
    Event(op,
          IF response.threw THEN "threw"
          ELSE IF isValidPdfLink(baseUrl, href, response).value THEN "valid" ELSE "invalid",
          NoError, Malformed, FALSE, FALSE, FALSE, FALSE)

RenderThrew(error) == Event("render", "threw", error, Malformed, FALSE, FALSE, FALSE, FALSE)

Rendered(page) ==
    LET section == findDocumentationSection(page.html)
    IN  Event("render", "page", NoError, page.finalUrl, page.redirected,
              section # << >>,
              section # << >> /\ findDocumentationLink(section[1], SafetyClasses) # Null,
              section # << >> /\ findDocumentationLink(section[1], TechnicalClasses) # Null)

\* the last operation of url is answered by event e
Answer(tr, url, e) == [tr EXCEPT ![url] = Append(Front(@), e)]

\* an operation is issued for url when its validation suspends at an await
Issue(tr, url, v) ==
    IF v.pc \in {"render", "safety", "technical"}
    THEN [tr EXCEPT ![url] = Append(@, Pending(v.pc))]
    ELSE tr

(***************************************************************************)
(* validateUrls: the worker pool                                            *)
(***************************************************************************)
\* a worker suspended in (or just back from) the validation of urls[index]
WorkerOf(index, v) ==
    [pc |-> v.pc, index |-> index, outcome |-> v.outcome,
     extraComments |-> v.extraComments, links |-> v.links]

\* a worker whose loop has ended (its promise is fulfilled)
Exited == [pc |-> "done", index |-> 0, outcome |-> NoOutcome,
           extraComments |-> << >>, links |-> NoLinks]

\* a worker whose promise is rejected: the exception left it at line 34
\* (the validation threw) or at line 37 (the callback threw)
Failed(line) == [pc |-> line, index |-> 0, outcome |-> NoOutcome,
                 extraComments |-> << >>, links |-> NoLinks]

UrlOf(w) == urls[workers[w].index + 1]

\* a variant of LoopIteration that reads the cursor and does not advance it
LoopIterationNoAdvance(S) ==
    IF S.currentIndex >= Len(urls) THEN [worker |-> Exited, shared |-> S]
    ELSE LET index == S.currentIndex
             url == urls[index + 1]
             v == ValidationStart(url)
         IN  [worker |-> WorkerOf(index, v),
              shared |-> [currentIndex |-> S.currentIndex,
                          invocations |-> [S.invocations EXCEPT ![url] = @ + 1],
                          trace |-> Issue(S.trace, url, v)]]

\* lines 27-34: one pass of a worker's loop over the shared state
\* S = [currentIndex, invocations, trace], up to the await of line 34
LoopIteration(S) ==
    IF S.currentIndex >= Len(urls) THEN [worker |-> Exited, shared |-> S]
    ELSE LET index == S.currentIndex
             url == urls[index + 1]
             v == ValidationStart(url)
         IN  [worker |-> WorkerOf(index, v),
              shared |-> [currentIndex |-> S.currentIndex + 1,
                          invocations |-> [S.invocations EXCEPT ![url] = @ + 1],
                          trace |-> Issue(S.trace, url, v)]]

\* line 26: Array.from runs the n workers one after the other, each up to
\* its first await (the state left by the workers before is bound once, as a
\* value, and then used by the next worker)
RECURSIVE Spawn(_, _)
Spawn(n, S) ==
    IF n = 0 THEN [workers |-> << >>, shared |-> S]
    ELSE LET Add(prev, it) == [workers |-> Append(prev.workers, it.worker), shared |-> it.shared]
         IN  CHOOSE sp \in {Add(prev, LoopIteration(prev.shared)) : prev \in {Spawn(n - 1, S)}} : TRUE

\* a variant of WorkerCount with one worker per URL, whatever the cap
WorkerCountUncapped == Len(urls)

\* line 25
WorkerCount == Min(MAX_CONCURRENT_REQUESTS, Len(urls))

\* Promise.all (line 42) rejects with the first rejection of a worker
Reject(st) == IF st = "pending" THEN "rejected" ELSE st

\* lines 13-26 and 42: the call of validateUrls, up to its await
validateUrls ==
    /\ status = "init"
    /\ IF Len(urls) = 0
       THEN /\ status' = "resolved"
            /\ UNCHANGED <<currentIndex, workers, invocations, trace>>
       ELSE LET sp == Spawn(WorkerCount,
                            [currentIndex |-> 0, invocations |-> invocations, trace |-> trace])
            IN  /\ status' = "pending"
                /\ workers' = sp.workers
                /\ currentIndex' = sp.shared.currentIndex
                /\ invocations' = sp.shared.invocations
                /\ trace' = sp.shared.trace
    /\ results' = << >>
    /\ UNCHANGED <<urls, validatePdfLinks, onOutcome, net, notified>>
    /\ UNCHANGED callVars

\* a variant of Notify that reports the failures only
NotifyFailuresOnly(log, outcome, map) ==
    IF onOutcome = "absent" \/ outcome.result = "OK" THEN log
    ELSE Append(log, [outcome |-> outcome,
                      stored |-> outcome.url \in DOMAIN map /\ map[outcome.url] = outcome])

\* lines 36-38: the callback, if supplied, is called with the outcome; it can
\* see the map as it is at the call
Notify(log, outcome, map) ==
    IF onOutcome = "absent" THEN log
    ELSE Append(log, [outcome |-> outcome,
                      stored |-> outcome.url \in DOMAIN map /\ map[outcome.url] = outcome])

\* a variant of Finish that stores the outcome under the URL the shared cursor
\* last handed out, not under the worker's own URL
FinishSharedCursor(w, v, tr) ==
    IF v.pc = "throw"
    THEN /\ workers' = [workers EXCEPT ![w] = Failed("threw34")]
         /\ status' = Reject(status)
         /\ trace' = tr
         /\ UNCHANGED <<results, notified, currentIndex, invocations>>
    ELSE /\ results' = MapSet(results, urls[currentIndex], v.outcome)
         /\ notified' = Notify(notified, v.outcome, MapSet(results, urls[currentIndex], v.outcome))
         /\ \E throws \in IF onOutcome = "present" THEN BOOLEAN ELSE {FALSE} :
               IF throws
               THEN /\ workers' = [workers EXCEPT ![w] = Failed("threw37")]
                    /\ status' = Reject(status)
                    /\ trace' = tr
                    /\ UNCHANGED <<currentIndex, invocations>>
               ELSE LET it == LoopIteration([currentIndex |-> currentIndex,
                                             invocations |-> invocations, trace |-> tr])
                    IN  /\ workers' = [workers EXCEPT ![w] = it.worker]
                        /\ currentIndex' = it.shared.currentIndex
                        /\ invocations' = it.shared.invocations
                        /\ trace' = it.shared.trace
                        /\ UNCHANGED status

\* a variant of Finish whose worker ends after its first URL instead of
\* claiming the next one
FinishOnce(w, v, tr) ==
    IF v.pc = "throw"
    THEN /\ workers' = [workers EXCEPT ![w] = Failed("threw34")]
         /\ status' = Reject(status)
         /\ trace' = tr
         /\ UNCHANGED <<results, notified, currentIndex, invocations>>
    ELSE /\ results' = MapSet(results, UrlOf(w), v.outcome)
         /\ notified' = Notify(notified, v.outcome, MapSet(results, UrlOf(w), v.outcome))
         /\ \E throws \in IF onOutcome = "present" THEN BOOLEAN ELSE {FALSE} :
               IF throws
               THEN /\ workers' = [workers EXCEPT ![w] = Failed("threw37")]
                    /\ status' = Reject(status)
               ELSE /\ workers' = [workers EXCEPT ![w] = Exited]
                    /\ UNCHANGED status
         /\ trace' = tr
         /\ UNCHANGED <<currentIndex, invocations>>

\* a variant of Finish whose worker ends its loop, instead of claiming the
\* next URL, once validateUrls has rejected
FinishStopsAfterRejection(w, v, tr) ==
    IF v.pc = "throw"
    THEN /\ workers' = [workers EXCEPT ![w] = Failed("threw34")]
         /\ status' = Reject(status)
         /\ trace' = tr
         /\ UNCHANGED <<results, notified, currentIndex, invocations>>
    ELSE /\ results' = MapSet(results, UrlOf(w), v.outcome)
         /\ notified' = Notify(notified, v.outcome, MapSet(results, UrlOf(w), v.outcome))
         /\ \E throws \in IF onOutcome = "present" THEN BOOLEAN ELSE {FALSE} :
               IF throws
               THEN /\ workers' = [workers EXCEPT ![w] = Failed("threw37")]
                    /\ status' = Reject(status)
                    /\ trace' = tr
                    /\ UNCHANGED <<currentIndex, invocations>>
               ELSE IF status = "rejected"
               THEN /\ workers' = [workers EXCEPT ![w] = Exited]
                    /\ trace' = tr
                    /\ UNCHANGED <<status, currentIndex, invocations>>
               ELSE LET it == LoopIteration([currentIndex |-> currentIndex,
                                             invocations |-> invocations, trace |-> tr])
                    IN  /\ workers' = [workers EXCEPT ![w] = it.worker]
                        /\ currentIndex' = it.shared.currentIndex
                        /\ invocations' = it.shared.invocations
                        /\ trace' = it.shared.trace
                        /\ UNCHANGED status

\* lines 34-39 and the next pass of the loop: worker w is resumed with the
\* settled validation v (returned or thrown) of its URL; tr is the trace so far
Finish(w, v, tr) ==
    IF v.pc = "throw"
    THEN /\ workers' = [workers EXCEPT ![w] = Failed("threw34")]
         /\ status' = Reject(status)
         /\ trace' = tr
         /\ UNCHANGED <<results, notified, currentIndex, invocations>>
    ELSE /\ results' = MapSet(results, UrlOf(w), v.outcome)
         /\ notified' = Notify(notified, v.outcome, MapSet(results, UrlOf(w), v.outcome))
         /\ \E throws \in IF onOutcome = "present" THEN BOOLEAN ELSE {FALSE} :
               IF throws
               THEN /\ workers' = [workers EXCEPT ![w] = Failed("threw37")]
                    /\ status' = Reject(status)
                    /\ trace' = tr
                    /\ UNCHANGED <<currentIndex, invocations>>
               ELSE LET it == LoopIteration([currentIndex |-> currentIndex,
                                             invocations |-> invocations, trace |-> tr])
                    IN  /\ workers' = [workers EXCEPT ![w] = it.worker]
                        /\ currentIndex' = it.shared.currentIndex
                        /\ invocations' = it.shared.invocations
                        /\ trace' = it.shared.trace
                        /\ UNCHANGED status

\* worker w's validation moves to v: it settles, or suspends at its next await
\* (v and tr are bound once, as values, before they are used)
Step(w, v, tr) ==
    /\ \E validation \in {v}, events \in {tr} :
          IF validation.pc \in {"return", "throw"}
          THEN Finish(w, validation, events)
          ELSE /\ workers' = [workers EXCEPT ![w] = WorkerOf(@.index, validation)]
               /\ trace' = Issue(events, UrlOf(w), validation)
               /\ UNCHANGED <<status, currentIndex, results, notified, invocations>>
    /\ UNCHANGED <<urls, validatePdfLinks, onOutcome, net>>
    /\ UNCHANGED callVars

\* line 34: the validation returned without suspending; the worker resumes
Resume(w) ==
    /\ workers[w].pc = "return"
    /\ Step(w, workers[w], trace)

\* line 62: the render returns a page
RenderReturns(w) ==
    /\ workers[w].pc = "render"
    /\ net # "down"
    /\ \E finalUrl \in IF net = "up" THEN FinalUrls(UrlOf(w)) ELSE MovedUrls(UrlOf(w)),
          html \in Htmls :
          LET page == renderProductPage(UrlOf(w), finalUrl, html)
          IN  Step(w, AfterRender(UrlOf(w), validatePdfLinks, page),
                   Answer(trace, UrlOf(w), Rendered(page)))

\* line 63: the render throws
RenderThrows(w) ==
    /\ workers[w].pc = "render"
    /\ net # "moved"
    /\ \E error \in IF net = "up" THEN RenderErrors ELSE {NetDown} :
          Step(w, AfterRenderThrows(UrlOf(w), error),
               Answer(trace, UrlOf(w), RenderThrew(error)))

\* line 101: the safety probe is answered
SafetyProbe(w) ==
    /\ workers[w].pc = "safety"
    /\ LET baseUrl == workers[w].links.base
           safetyHref == workers[w].links.safety
       IN  \E response \in PoolProbeResponses(resolveUrl(baseUrl, safetyHref)) :
              LET safetyValid == isValidPdfLink(baseUrl, safetyHref, response)
              IN  Step(w,
                       IF safetyValid.raised THEN Thrown
                       ELSE AfterSafetyProbe(UrlOf(w), validatePdfLinks, workers[w],
                                             safetyValid.value),
                       Answer(trace, UrlOf(w), Probed("safety", baseUrl, safetyHref, response)))

\* line 117: the technical probe is answered
TechnicalProbe(w) ==
    /\ workers[w].pc = "technical"
    /\ LET baseUrl == workers[w].links.base
           technicalHref == workers[w].links.technical
       IN  \E response \in PoolProbeResponses(resolveUrl(baseUrl, technicalHref)) :
              LET technicalValid == isValidPdfLink(baseUrl, technicalHref, response)
              IN  Step(w,
                       IF technicalValid.raised THEN Thrown
                       ELSE AfterTechnicalProbe(UrlOf(w), workers[w], technicalValid.value),
                       Answer(trace, UrlOf(w),
                              Probed("technical", baseUrl, technicalHref, response)))

\* a variant of Return that resolves as soon as the cursor has passed the last
\* index, without waiting for the workers
ReturnWhenAllClaimed ==
    /\ status = "pending"
    /\ currentIndex >= Len(urls)
    /\ status' = "resolved"
    /\ UNCHANGED <<urls, validatePdfLinks, onOutcome, net, currentIndex, results,
                   workers, notified, invocations, trace>>
    /\ UNCHANGED callVars

\* a variant of Return that waits for the cursor to pass beyond the length of
\* the input
ReturnOffByOne ==
    /\ status = "pending"
    /\ \A w \in DOMAIN workers : workers[w].pc = "done"
    /\ currentIndex > Len(urls)
    /\ status' = "resolved"
    /\ UNCHANGED <<urls, validatePdfLinks, onOutcome, net, currentIndex, results,
                   workers, notified, invocations, trace>>
    /\ UNCHANGED callVars

\* lines 42-43: every worker's promise is fulfilled; the map is returned
Return ==
    /\ status = "pending"
    /\ \A w \in DOMAIN workers : workers[w].pc = "done"
    /\ status' = "resolved"
    /\ UNCHANGED <<urls, validatePdfLinks, onOutcome, net, currentIndex, results,
                   workers, notified, invocations, trace>>
    /\ UNCHANGED callVars

\* no call of isValidPdfLink is run on its own
NoProbe == [pc |-> "idle", baseUrl |-> << >>, href |-> << >>, absoluteUrl |-> << >>,
            response |-> Threw, result |-> Value(FALSE)]

\* no call of fetchPage is run on its own
\* (page: what fetchPage returned; loads: how many times a response carrying
\* the page was received; loaded: the HTML handed to the extraction)
NoFetch == [pc |-> "idle", url |-> Malformed, attempt |-> 0, lastError |-> NoError,
            log |-> << >>, sleeps |-> 0, wait |-> NoWait, error |-> NoError,
            validation |-> Awaiting("idle", << >>, NoLinks),
            page |-> NoPage, loads |-> 0, loaded |-> Html(FALSE, << >>)]

\* the module state of fetch.ts before any call: browserPromise is null (0),
\* chromium.launch has not been invoked, nobody renders or shuts down
NoBrowser == [browserPromise |-> 0, launches |-> 0, promises |-> << >>, resets |-> 0,
              callers |-> << >>,
              shutdown |-> [pc |-> "idle", promise |-> 0, calls |-> 0]]

\* no pure function is run on its own
NoCall == [pc |-> "idle"]

\* run() has called validateUrls and awaits it (index.ts): outcomes is empty
NoRun == [pc |-> "validateUrls", outcomes |-> << >>]

\* Inputs of at most MaxUrls URLs are run against every response of the
\* network and with or without a callback (which may throw at any call);
\* longer inputs, up to MaxWide product URLs, are run with the network down
\* (every render fails) and without a callback; the two product pages are
\* run on a site that answers under variants of their URLs.
Init ==
    /\ \/ /\ urls \in UNION {SubSeqs(RichUrls, n) : n \in 0 .. MaxUrls}
          /\ onOutcome \in {"absent", "present"}
          /\ net = "up"
       \/ /\ urls \in {Products(n) : n \in MaxUrls + 1 .. MaxWide}
          /\ onOutcome = "absent"
          /\ net = "down"
       \/ /\ urls = <<ProductA, ProductB>>
          /\ onOutcome = "absent"
          /\ net = "moved"
    /\ validatePdfLinks \in BOOLEAN
    /\ status = "init"
    /\ currentIndex = 0
    /\ results = << >>
    /\ workers = << >>
    /\ notified = << >>
    /\ invocations = [u \in Range(urls) |-> 0]
    /\ trace = [u \in Range(urls) |-> << >>]
    /\ probe = NoProbe
    /\ fetcher = NoFetch
    /\ browser = NoBrowser
    /\ pureCall = NoCall
    /\ run = NoRun

Next ==
    \/ validateUrls
    \/ \E w \in DOMAIN workers : Resume(w)
    \/ \E w \in DOMAIN workers : RenderReturns(w)
    \/ \E w \in DOMAIN workers : RenderThrows(w)
    \/ \E w \in DOMAIN workers : SafetyProbe(w)
    \/ \E w \in DOMAIN workers : TechnicalProbe(w)
    \/ Return

Spec == Init /\ [][Next]_vars

(***************************************************************************)
(* run(): the caller of validateUrls (index.ts)                             *)
(***************************************************************************)
MsgUnavailable == <<"Validation indisponible">>

\* a variant of Join that puts each outcome at the front of the list
JoinAtFront(uniqueUrls, uniqueOutcomes) ==
    [i \in DOMAIN uniqueUrls |->
        LET url == uniqueUrls[Len(uniqueUrls) + 1 - i]
        IN  IF url \notin DOMAIN uniqueOutcomes THEN Outcome(url, "KO", MsgUnavailable)
            ELSE uniqueOutcomes[url]]

\* part_003 lines 389-402: the list outcomes after the loop over uniqueUrls
RECURSIVE Join(_, _)
Join(uniqueUrls, uniqueOutcomes) ==
    IF uniqueUrls = << >> THEN << >>
    ELSE LET url == Head(uniqueUrls)
             rest == Join(Tail(uniqueUrls), uniqueOutcomes)
         IN  IF url \notin DOMAIN uniqueOutcomes
             THEN <<Outcome(url, "KO", MsgUnavailable)>> \o rest
             ELSE <<uniqueOutcomes[url]>> \o rest

\* part_003 lines 383-404: validateUrls has returned its map; the outcomes
\* are joined to the input sequence and written
JoinOutcomes ==
    /\ run.pc = "validateUrls"
    /\ status = "resolved"
    /\ run' = [pc |-> "writeResults", outcomes |-> Join(urls, results)]
    /\ UNCHANGED <<poolVars, probe, fetcher, browser, pureCall>>

\* part_003 lines 383-388 and 406-410: validateUrls has rejected; the
\* exception passes the finally and is caught at the end of run, past the loop
RunCatches ==
    /\ run.pc = "validateUrls"
    /\ status = "rejected"
    /\ run' = [run EXCEPT !.pc = "catch"]
    /\ UNCHANGED <<poolVars, probe, fetcher, browser, pureCall>>

RunNext == Next \/ JoinOutcomes \/ RunCatches

SpecRun == Init /\ [][RunNext]_vars

(***************************************************************************)
(* validateUrls under fair scheduling                                       *)
(***************************************************************************)
\* the event loop resumes worker w: the operation it awaits is answered, or
\* the validation that returned without awaiting is continued
WorkerStep(w) ==
    \/ Resume(w)
    \/ RenderThrows(w)
    \/ RenderReturns(w)
    \/ SafetyProbe(w)
    \/ TechnicalProbe(w)

\* what worker w holds: its index and the position of its validation (nothing
\* before the workers are spawned); every step of w changes it
Held(w) == [v \in DOMAIN workers \cap {w} |-> workers[v]]

\* every worker but the one that holds the first URL (index 0) is eventually
\* resumed: the operations of the first URL may stay unanswered for ever
FairButFirst ==
    /\ WF_vars(validateUrls)
    /\ WF_vars(Return)
    /\ \A w \in 1 .. MAX_CONCURRENT_REQUESTS :
          WF_<<Held(w)>>(w \in DOMAIN workers /\ workers[w].index # 0 /\ WorkerStep(w))

SpecStall == Init /\ [][Next]_vars /\ FairButFirst

\* every worker is eventually resumed: every render and every probe is
\* eventually answered
FairAll ==
    /\ WF_vars(validateUrls)
    /\ WF_vars(Return)
    /\ \A w \in 1 .. MAX_CONCURRENT_REQUESTS :
          WF_<<Held(w)>>(w \in DOMAIN workers /\ WorkerStep(w))

SpecFair == Init /\ [][Next]_vars /\ FairAll

(***************************************************************************)
(* validateUrls on an input longer than the pool, with a callback          *)
(***************************************************************************)
\* the promise of worker w is settled: its loop has ended, or an exception
\* left it
Settled(w) == workers[w].pc \in {"done", "threw34", "threw37"}

\* On the long input with a callback the site answers the renders in the
\* order of the requests: w is resumed when no other running worker holds an
\* earlier URL.  On every other input the workers are resumed in any order.
InTurn(w) ==
    (net = "down" /\ onOutcome = "present") =>
        \A x \in DOMAIN workers : Settled(x) \/ workers[x].index >= workers[w].index

\* the inputs of Init, and MaxWide product URLs (more than
\* MAX_CONCURRENT_REQUESTS) with a callback that may throw at any call, on a
\* site whose renders all fail
WideInit ==
    \/ Init
    \/ /\ urls = Products(MaxWide)
       /\ onOutcome = "present"
       /\ net = "down"
       /\ validatePdfLinks \in BOOLEAN
       /\ status = "init"
       /\ currentIndex = 0
       /\ results = << >>
       /\ workers = << >>
       /\ notified = << >>
       /\ invocations = [u \in Range(urls) |-> 0]
       /\ trace = [u \in Range(urls) |-> << >>]
       /\ probe = NoProbe
       /\ fetcher = NoFetch
       /\ browser = NoBrowser
       /\ pureCall = NoCall
       /\ run = NoRun

WideNext ==
    \/ validateUrls
    \/ \E w \in DOMAIN workers : InTurn(w) /\ WorkerStep(w)
    \/ Return

SpecWide == WideInit /\ [][WideNext]_vars

(***************************************************************************)
(* isValidPdfLink on its own                                                *)
(***************************************************************************)
\* validateUrls is not called
PoolIdle ==
    /\ urls = << >>
    /\ validatePdfLinks = FALSE
    /\ onOutcome = "absent"
    /\ net = "up"
    /\ status = "init"
    /\ currentIndex = 0
    /\ results = << >>
    /\ workers = << >>
    /\ notified = << >>
    /\ invocations = << >>
    /\ trace = << >>

\* base URLs: https://s/a, https://s/d/e, and a text that is no URL
ProbeBases == {UrlText(ProductA), <<"https", "://", "s", "/", "d", "/", "e">>, UrlText(Malformed)}

\* hrefs: relative, root-relative, absolute on another host, and "http://"
\* (no host: new URL throws on it with any base)
ProbeHrefs ==
    {<<"x">>, <<"x", ".pdf">>, <<"/", "x">>,
     <<"https", "://", "o", "/", "x", ".pdf">>, <<"http", "://">>}

\* isValidPdfLink(baseUrl, href, delayMs) is called
PdfInit ==
    /\ PoolIdle
    /\ \E baseUrl \in ProbeBases, href \in ProbeHrefs :
          probe = [NoProbe EXCEPT !.pc = "called", !.baseUrl = baseUrl, !.href = href]
    /\ fetcher = NoFetch
    /\ browser = NoBrowser
    /\ pureCall = NoCall
    /\ run = NoRun

\* lines 206-207: the href is resolved and the request issued
ProbeRequest ==
    /\ probe.pc = "called"
    /\ probe' = [probe EXCEPT !.pc = "fetching",
                               !.absoluteUrl = resolveUrl(probe.baseUrl, probe.href)]
    /\ UNCHANGED <<poolVars, fetcher, browser, pureCall, run>>

\* lines 207-226: the request is answered and the call settles
ProbeAnswer ==
    /\ probe.pc = "fetching"
    /\ \E response \in ProbeResponses(probe.absoluteUrl) :
          probe' = [probe EXCEPT !.pc = "settled",
                                 !.response = response,
                                 !.result = isValidPdfLink(probe.baseUrl, probe.href, response)]
    /\ UNCHANGED <<poolVars, fetcher, browser, pureCall, run>>

PdfNext == ProbeRequest \/ ProbeAnswer

SpecPdf == PdfInit /\ [][PdfNext]_vars

(***************************************************************************)
(* fetchPage on its own, called by validateProductPage                      *)
(***************************************************************************)
\* lines 50-57: fetchPage(url, delayMs) is called by the validation of url and
\* has issued the request of its first attempt
FetchInit ==
    /\ PoolIdle
    /\ probe = NoProbe
    /\ fetcher = [NoFetch EXCEPT !.pc = "request", !.url = ProductA, !.attempt = 1,
                                  !.validation = Awaiting("fetchPage", << >>, NoLinks)]
    /\ browser = NoBrowser
    /\ pureCall = NoCall
    /\ run = NoRun

\* lines 57-83: the request is answered by a response
FetchResponds ==
    /\ fetcher.pc = "request"
    /\ \E answer \in {a \in FetchAnswers(fetcher.url) : a.kind # "failure"}, random \in Randoms :
          fetcher' = AfterResponse([fetcher EXCEPT !.log = Append(@, Logged(answer))],
                                   answer, random)
    /\ UNCHANGED <<poolVars, probe, browser, pureCall, run>>

\* lines 57-66 and 84-92: the request or the reading of the body throws
FetchThrows ==
    /\ fetcher.pc = "request"
    /\ \E answer \in {a \in FetchAnswers(fetcher.url) : a.kind = "failure"}, random \in Randoms :
          fetcher' = Catch([fetcher EXCEPT !.log = Append(@, Logged(answer))],
                           answer.error, random)
    /\ UNCHANGED <<poolVars, probe, browser, pureCall, run>>

\* a variant of SleepEnds whose loop test is attempt <= MAX_ATTEMPTS
SleepEndsOneMore ==
    /\ fetcher.pc = "sleep"
    /\ fetcher' = IF fetcher.attempt <= MAX_ATTEMPTS
                  THEN [fetcher EXCEPT !.pc = "request", !.attempt = @ + 1,
                                       !.sleeps = @ + 1, !.wait = NoWait]
                  ELSE GiveUp([fetcher EXCEPT !.sleeps = @ + 1])
    /\ UNCHANGED <<poolVars, probe, browser, pureCall, run>>

\* lines 83/91, 53-57 and 95: the sleep ends; the loop goes on with the next
\* attempt or is left
SleepEnds ==
    /\ fetcher.pc = "sleep"
    /\ fetcher' = IF fetcher.attempt < MAX_ATTEMPTS
                  THEN [fetcher EXCEPT !.pc = "request", !.attempt = @ + 1,
                                       !.sleeps = @ + 1, !.wait = NoWait]
                  ELSE GiveUp([fetcher EXCEPT !.sleeps = @ + 1])
    /\ UNCHANGED <<poolVars, probe, browser, pureCall, run>>

\* index.ts, lines 100-108: the request of fromURL(url) is answered by a
\* document, and the validation goes on in it
FromUrlReturns ==
    /\ fetcher.pc = "returned"
    /\ fetcher.validation.pc = "fromURL"
    /\ \E html \in PageHtmls :
          fetcher' = [fetcher EXCEPT !.loads = @ + 1, !.loaded = html,
                                     !.validation = AfterFromUrl(fetcher.url, validatePdfLinks,
                                                                 fetcher.page, html)]
    /\ UNCHANGED <<poolVars, probe, browser, pureCall, run>>

\* index.ts, lines 100 and 170-177: fromURL(url) throws, caught by the catch
\* around the whole validation
FromUrlThrows ==
    /\ fetcher.pc = "returned"
    /\ fetcher.validation.pc = "fromURL"
    /\ \E error \in TransportErrors :
          fetcher' = [fetcher EXCEPT !.validation = AfterFetchPageThrows(fetcher.url, error)]
    /\ UNCHANGED <<poolVars, probe, browser, pureCall, run>>

FetchNext == FetchResponds \/ FetchThrows \/ SleepEnds \/ FromUrlReturns \/ FromUrlThrows

SpecFetch == FetchInit /\ [][FetchNext]_vars

(***************************************************************************)
(* The shared browser: renderProductPage and shutdownBrowser                *)
(***************************************************************************)
\* number of concurrent callers of renderProductPage
MaxCallers == 3

\* number of pages each caller renders
MaxRenders == 1

\* number of calls of shutdownBrowser
MaxShutdowns == 1

\* a caller of renderProductPage: where it is, the promise getBrowser gave
\* it, the Browser it received, the renders it has finished
Caller(pc, promise, handle, renders) ==
    [pc |-> pc, promise |-> promise, handle |-> handle, renders |-> renders]

\* a variant of getBrowser that launches at every call
getBrowserAlwaysLaunches(b) ==
    [b EXCEPT !.launches = @ + 1,
              !.promises = Append(@, "pending"),
              !.browserPromise = b.launches + 1]

\* a variant of getBrowser that launches again when the stored promise is
\* rejected
getBrowserRelaunchesRejected(b) ==
    IF b.browserPromise = 0 \/ b.promises[b.browserPromise] = "rejected"
    THEN [b EXCEPT !.launches = @ + 1,
                   !.promises = Append(@, "pending"),
                   !.browserPromise = b.launches + 1]
    ELSE b

\* lines 10-15: chromium.launch is invoked when browserPromise is null, and
\* its promise (named by the launch's number) is stored before anything is
\* awaited; the call returns browserPromise
getBrowser(b) ==
    IF b.browserPromise = 0
    THEN [b EXCEPT !.launches = @ + 1,
                   !.promises = Append(@, "pending"),
                   !.browserPromise = b.launches + 1]
    ELSE b

\* line 103: getBrowser is called and awaited by caller c
CallGetBrowser(b, c) ==
    LET got == getBrowser(b)
    IN  [got EXCEPT !.callers[c] = Caller("getBrowser", got.browserPromise, 0, @.renders)]

BrowserInit ==
    /\ PoolIdle
    /\ probe = NoProbe
    /\ fetcher = NoFetch
    /\ browser = [NoBrowser EXCEPT !.callers = [c \in 1 .. MaxCallers |-> Caller("idle", 0, 0, 0)]]
    /\ pureCall = NoCall
    /\ run = NoRun

\* lines 98-103: renderProductPage is called; it sleeps first when delayMs > 0
RenderCall(c) ==
    /\ browser.callers[c].pc = "idle"
    /\ browser.callers[c].renders < MaxRenders
    /\ \E delayMs \in {0, 1} :
          browser' = IF delayMs > 0
                     THEN [browser EXCEPT !.callers[c].pc = "sleep"]
                     ELSE CallGetBrowser(browser, c)
    /\ UNCHANGED <<poolVars, probe, fetcher, pureCall, run>>

\* lines 100-103: the sleep ends
RenderWakes(c) ==
    /\ browser.callers[c].pc = "sleep"
    /\ browser' = CallGetBrowser(browser, c)
    /\ UNCHANGED <<poolVars, probe, fetcher, pureCall, run>>

\* chromium.launch settles: the browser is started, or the launch fails
LaunchSettles(p) ==
    /\ browser.promises[p] = "pending"
    /\ \E outcome \in {"fulfilled", "rejected"} :
          browser' = [browser EXCEPT !.promises[p] = outcome]
    /\ UNCHANGED <<poolVars, probe, fetcher, pureCall, run>>

\* lines 103-110: the awaited promise is fulfilled; the caller has its Browser
\* and renders with it
BrowserArrives(c) ==
    /\ browser.callers[c].pc = "getBrowser"
    /\ browser.promises[browser.callers[c].promise] = "fulfilled"
    /\ browser' = [browser EXCEPT !.callers[c].pc = "rendering",
                                   !.callers[c].handle = browser.callers[c].promise]
    /\ UNCHANGED <<poolVars, probe, fetcher, pureCall, run>>

\* line 103: the awaited promise is rejected; renderProductPage throws
BrowserRejects(c) ==
    /\ browser.callers[c].pc = "getBrowser"
    /\ browser.promises[browser.callers[c].promise] = "rejected"
    /\ browser' = [browser EXCEPT !.callers[c].pc = "idle",
                                   !.callers[c].renders = @ + 1]
    /\ UNCHANGED <<poolVars, probe, fetcher, pureCall, run>>

\* lines 104-118: the render returns its page or throws
RenderEnds(c) ==
    /\ browser.callers[c].pc = "rendering"
    /\ browser' = [browser EXCEPT !.callers[c].pc = "idle",
                                   !.callers[c].renders = @ + 1]
    /\ UNCHANGED <<poolVars, probe, fetcher, pureCall, run>>

\* lines 17-22: shutdownBrowser is called; it returns at once when
\* browserPromise is null, else awaits it
ShutdownCall ==
    /\ browser.shutdown.pc = "idle"
    /\ browser.shutdown.calls < MaxShutdowns
    /\ browser' = IF browser.browserPromise = 0
                  THEN [browser EXCEPT !.shutdown.calls = @ + 1]
                  ELSE [browser EXCEPT !.shutdown.calls = @ + 1,
                                       !.shutdown.pc = "browserPromise",
                                       !.shutdown.promise = browser.browserPromise]
    /\ UNCHANGED <<poolVars, probe, fetcher, pureCall, run>>

\* lines 22-28: the awaited promise settles; a Browser is closed (next await),
\* a rejection is caught and browserPromise reset
ShutdownResumes ==
    /\ browser.shutdown.pc = "browserPromise"
    /\ browser.promises[browser.shutdown.promise] # "pending"
    /\ browser' = IF browser.promises[browser.shutdown.promise] = "fulfilled"
                  THEN [browser EXCEPT !.shutdown.pc = "close"]
                  ELSE [browser EXCEPT !.shutdown.pc = "idle",
                                       !.browserPromise = 0,
                                       !.resets = @ + 1]
    /\ UNCHANGED <<poolVars, probe, fetcher, pureCall, run>>

\* lines 23-28: browser.close() returns or throws; browserPromise is reset
ShutdownCloses ==
    /\ browser.shutdown.pc = "close"
    /\ browser' = [browser EXCEPT !.shutdown.pc = "idle",
                                   !.browserPromise = 0,
                                   !.resets = @ + 1]
    /\ UNCHANGED <<poolVars, probe, fetcher, pureCall, run>>

BrowserNext ==
    \/ \E c \in DOMAIN browser.callers : RenderCall(c)
    \/ \E c \in DOMAIN browser.callers : RenderWakes(c)
    \/ \E p \in DOMAIN browser.promises : LaunchSettles(p)
    \/ \E c \in DOMAIN browser.callers : BrowserArrives(c)
    \/ \E c \in DOMAIN browser.callers : BrowserRejects(c)
    \/ \E c \in DOMAIN browser.callers : RenderEnds(c)
    \/ ShutdownCall
    \/ ShutdownResumes
    \/ ShutdownCloses

SpecBrowser == BrowserInit /\ [][BrowserNext]_vars

(***************************************************************************)
(* normalizePath on its own                                                 *)
(***************************************************************************)
\* longest pathname, in pieces
MaxPathLen == 6

\* the pieces of a pathname: the slash, two letters, an upper-case letter
PathPieces == {"/", "a", "b", "A"}

Pathnames == UNION {[1 .. n -> PathPieces] : n \in 0 .. MaxPathLen}

\* normalizePath(pathname) is called
PathInit ==
    /\ PoolIdle
    /\ probe = NoProbe
    /\ fetcher = NoFetch
    /\ browser = NoBrowser
    /\ \E pathname \in Pathnames :
          pureCall = [pc |-> "called", pathname |-> pathname, value |-> << >>, again |-> << >>]
    /\ run = NoRun

\* lines 165-170: the call returns
NormalizeReturns ==
    /\ pureCall.pc = "called"
    /\ pureCall' = [pureCall EXCEPT !.pc = "returned", !.value = normalizePath(pureCall.pathname)]
    /\ UNCHANGED <<poolVars, probe, fetcher, browser, run>>

\* lines 165-170: normalizePath is called on the value it returned
NormalizeAgain ==
    /\ pureCall.pc = "returned"
    /\ pureCall' = [pureCall EXCEPT !.pc = "returned twice", !.again = normalizePath(pureCall.value)]
    /\ UNCHANGED <<poolVars, probe, fetcher, browser, run>>

PathNext == NormalizeReturns \/ NormalizeAgain

SpecPath == PathInit /\ [][PathNext]_vars

(***************************************************************************)
(* isSameProductUrl on its own                                              *)
(***************************************************************************)
\* the URL strings compared: every combination of a scheme (foo is a scheme
\* with no default path), a host, a port or none, a path or none, a query
\* string or none, a fragment or none; and a text that is no URL
SameUrls ==
    {Url(scheme, host \o port, path \o query \o fragment) :
        scheme \in {"http", "https", "foo"},
        host \in {<<"s">>, <<"o">>},
        port \in {<< >>, <<":8080">>, <<":99999">>},
        path \in {<< >>, <<"/", "a">>, <<"/", "A", "/">>},
        query \in {<< >>, <<"?", "q">>},
        fragment \in {<< >>, <<"#", "f">>}}
    \cup {Malformed}

\* isSameProductUrl(requestedUrl, finalUrl) is called
SameInit ==
    /\ PoolIdle
    /\ probe = NoProbe
    /\ fetcher = NoFetch
    /\ browser = NoBrowser
    /\ \E requestedUrl \in SameUrls, finalUrl \in SameUrls :
          pureCall = [pc |-> "called", requestedUrl |-> requestedUrl, finalUrl |-> finalUrl,
                      value |-> FALSE]
    /\ run = NoRun

\* lines 150-163: the call returns
SameReturns ==
    /\ pureCall.pc = "called"
    /\ pureCall' = [pureCall EXCEPT
                        !.pc = "returned",
                        !.value = isSameProductUrl(pureCall.requestedUrl, pureCall.finalUrl)]
    /\ UNCHANGED <<poolVars, probe, fetcher, browser, run>>

SameNext == SameReturns

SpecSame == SameInit /\ [][SameNext]_vars

(***************************************************************************)
(* findDocumentationLink on its own                                         *)
(***************************************************************************)
\* longest list of elements below the section
MaxNodes == 3

\* an element below the section, at its depth: 1 for a child of the section,
\* 2 for a child of a child (the elements between are not listed)
Descendant(depth, element) == [depth |-> depth, element |-> element]

\* a variant of ChildrenOf that gives the elements of every depth
ChildrenOfAnyDepth(descendants) ==
    [i \in DOMAIN descendants |-> descendants[i].element]

\* section.children(...) (lines 181-182): the elements that are children of
\* the section, in document order
ChildrenOf(descendants) ==
    LET direct == SelectSeq(descendants, LAMBDA d : d.depth = 1)
    IN  [i \in DOMAIN direct |-> direct[i].element]

SafetyClassAttr == <<"product-documentation__link", "product-documentation__link--safety-data-sheet">>

\* the elements below the section: safety anchors with an href, with an href
\* in blanks (and a class attribute with a leading blank, the classes in the
\* other order), with a blank href, without href; an anchor with the first
\* class only; a div with the safety classes; a technical anchor; an anchor
\* without class; and a safety and a technical anchor one level deeper
Descendants ==
    {Descendant(1, Element("a", SafetyClassAttr, <<"x">>)),
     Descendant(1, Element("a", <<"", "product-documentation__link--safety-data-sheet",
                                  "product-documentation__link">>, <<" ", "y", " ">>)),
     Descendant(1, Element("a", SafetyClassAttr, <<" ">>)),
     Descendant(1, Element("a", SafetyClassAttr, << >>)),
     Descendant(1, Element("a", <<"product-documentation__link">>, <<"z">>)),
     Descendant(1, Element("div", SafetyClassAttr, <<"w">>)),
     Descendant(1, Element("a", <<"product-documentation__link",
                                  "product-documentation__link--technical-data-sheet">>, <<"t">>)),
     Descendant(1, Element("a", << >>, <<"n">>)),
     Descendant(2, Element("a", SafetyClassAttr, <<"deep">>)),
     Descendant(2, Element("a", <<"product-documentation__link",
                                  "product-documentation__link--technical-data-sheet">>, <<"deeper">>))}

\* findDocumentationLink(section, requiredClasses) is called
LinkInit ==
    /\ PoolIdle
    /\ probe = NoProbe
    /\ fetcher = NoFetch
    /\ browser = NoBrowser
    /\ \E descendants \in UNION {[1 .. n -> Descendants] : n \in 0 .. MaxNodes},
          requiredClasses \in {SafetyClasses, TechnicalClasses} :
          pureCall = [pc |-> "called", descendants |-> descendants,
                      requiredClasses |-> requiredClasses, value |-> Null]
    /\ run = NoRun

\* lines 177-202: the call returns
LinkReturns ==
    /\ pureCall.pc = "called"
    /\ pureCall' = [pureCall EXCEPT
                        !.pc = "returned",
                        !.value = findDocumentationLink(ChildrenOf(pureCall.descendants),
                                                        pureCall.requiredClasses)]
    /\ UNCHANGED <<poolVars, probe, fetcher, browser, run>>

LinkNext == LinkReturns

SpecLink == LinkInit /\ [][LinkNext]_vars

(***************************************************************************)
(* Properties                                                               *)
(***************************************************************************)
\* the workers suspended in a validation that has not finished
InFlight == {w \in DOMAIN workers : workers[w].pc \in {"render", "safety", "technical"}}

\* the workers that hold an index: suspended, or about to resume with an outcome
Live == {w \in DOMAIN workers : workers[w].pc \in {"render", "safety", "technical", "return"}}

NoPending(u) == \A i \in DOMAIN trace[u] : trace[u][i].res # "pending"

\* C1: validateUrls resolves only after every claimed validation has finished
\* (no worker is left running, no operation is outstanding), and then the keys
\* of the map are exactly the input URLs, each mapped to the outcome whose url
\* field is that key.
C1_ResolvedMapIsComplete ==
    status = "resolved" =>
        /\ \A w \in DOMAIN workers : workers[w].pc = "done"
        /\ \A u \in Range(urls) : NoPending(u)
        /\ DOMAIN results = Range(urls)
        /\ \A u \in DOMAIN results : results[u].url = u

C1_Witness ==
    /\ status = "resolved"
    /\ Len(urls) > MAX_CONCURRENT_REQUESTS
    /\ Cardinality(DOMAIN results) = Len(urls)

\* C2 (state part): no URL is handed to validateProductPage twice, no two
\* workers hold the same index, and at resolution every URL has been handed
\* out exactly once.
C2_ClaimedOnce ==
    /\ \A u \in Range(urls) : invocations[u] <= 1
    /\ \A w1, w2 \in Live : workers[w1].index = workers[w2].index => w1 = w2
    /\ \A w \in Live : workers[w].index < currentIndex
    /\ status = "resolved" => \A u \in Range(urls) : invocations[u] = 1

\* C2 (step part): an entry of the map, once written, is never overwritten or removed.
C2_EntriesStable ==
    \A u \in DOMAIN results : u \in DOMAIN results' /\ results'[u] = results[u]

\* C2: every index is claimed by exactly one worker under every interleaving,
\* validateProductPage runs once per input URL, and written entries stay.
C2_ExclusiveClaims == [](C2_ClaimedOnce) /\ [][C2_EntriesStable]_vars

C2_Witness ==
    /\ Len(urls) > MAX_CONCURRENT_REQUESTS
    /\ currentIndex = Len(urls)
    /\ Cardinality(Live) >= 2
    /\ Cardinality(DOMAIN results) >= 2

\* C3: at most min(8, |urls|) validations are in flight at any instant; exactly
\* that many workers are started; empty input starts no worker, validates
\* nothing, calls no callback and returns an empty map; a non-empty input
\* starts at least one worker.
C3_ConcurrencyCap ==
    /\ MAX_CONCURRENT_REQUESTS = 8
    /\ Cardinality(InFlight) <= Min(8, Len(urls))
    /\ Cardinality(Live) <= Min(8, Len(urls))
    /\ status # "init" => Len(workers) = Min(8, Len(urls))
    /\ Len(urls) = 0 =>
          /\ workers = << >>
          /\ results = << >>
          /\ notified = << >>
          /\ status \in {"init", "resolved"}
    /\ (Len(urls) > 0 /\ status # "init") => Len(workers) >= 1

C3_Witness ==
    /\ Len(urls) > 8
    /\ Cardinality(InFlight) = 8
    /\ Cardinality(DOMAIN results) >= 1

NotifiedUrls == {notified[i].outcome.url : i \in DOMAIN notified}

\* C4 (state part): every call of the callback passed an outcome the map
\* already held for that URL, no URL is reported twice, and at resolution every
\* input URL has been reported.
C4_ReportedOnce ==
    /\ onOutcome = "absent" => notified = << >>
    /\ \A i \in DOMAIN notified :
          /\ notified[i].stored
          /\ notified[i].outcome.url \in DOMAIN results
          /\ results[notified[i].outcome.url] = notified[i].outcome
    /\ \A i, j \in DOMAIN notified : notified[i].outcome.url = notified[j].outcome.url => i = j
    /\ (status = "resolved" /\ onOutcome = "present") => NotifiedUrls = Range(urls)

\* C4 (step part): the callback is called in the step that completes a
\* validation, with that validation's outcome (so the calls are in completion
\* order), and never once validateUrls has resolved.
C4_ReportedOnCompletion ==
    /\ onOutcome = "present" =>
          \A u \in Range(urls) :
              (u \in DOMAIN results' /\ u \notin DOMAIN results) =>
                  /\ Len(notified') = Len(notified) + 1
                  /\ Last(notified').outcome = results'[u]
    /\ notified' # notified =>
          /\ Front(notified') = notified
          /\ DOMAIN results' # DOMAIN results
    /\ status = "resolved" => notified' = notified

\* C4: a supplied callback is called exactly once per input URL, with that
\* URL's outcome, after the outcome is stored, in completion order, and not
\* after validateUrls has resolved.
C4_CallbackPerCompletion == [](C4_ReportedOnce) /\ [][C4_ReportedOnCompletion]_vars

\* the callback saw the second URL finish before the first
C4_Witness ==
    /\ status = "resolved"
    /\ onOutcome = "present"
    /\ Len(urls) = 2
    /\ Len(notified) = 2
    /\ notified[1].outcome.url = urls[2]
    /\ notified[2].outcome.url = urls[1]

\* the outcomes produced so far: stored in the map, or returned to a worker
\* that has not resumed yet
Produced ==
    {results[u] : u \in DOMAIN results}
    \cup {workers[w].outcome : w \in {x \in DOMAIN workers : workers[x].pc = "return"}}

RenderFailed(u) == Len(trace[u]) >= 1 /\ trace[u][1].res = "threw"

RenderSucceeded(u) == Len(trace[u]) >= 1 /\ trace[u][1].res = "page"

\* the validation of u has finished in this step with a failed render
FailsNow(u) == RenderFailed(u)' /\ ~RenderFailed(u)

\* C5 (state part): no worker is ever left by an exception of
\* validateProductPage, every produced outcome is a verdict, without a callback
\* validateUrls is never rejected, and a settled run has an outcome per URL
\* even when renders failed.
C5_NoRejection ==
    /\ \A w \in DOMAIN workers : workers[w].pc # "threw34"
    /\ \A o \in Produced : o.result \in {"OK", "KO"}
    /\ onOutcome = "absent" => status # "rejected"
    /\ (status = "resolved" /\ \E u \in Range(urls) : RenderFailed(u)) =>
          DOMAIN results = Range(urls)

\* C5 (step part): the step in which the render of u fails stores a KO outcome
\* for u and leaves every other URL's outcome, operations and worker as they were.
C5_FailureIsLocal ==
    \A u \in Range(urls) :
        FailsNow(u) =>
            /\ u \in DOMAIN results' /\ results'[u].result = "KO"
            /\ \A o \in Range(urls) \ {u} :
                  /\ (o \in DOMAIN results <=> o \in DOMAIN results') \/ o \notin DOMAIN results
                  /\ o \in DOMAIN results => results'[o] = results[o]
                  /\ trace[o] # << >> => trace'[o] = trace[o]
            /\ \A w \in DOMAIN workers :
                  (workers[w].pc \in {"render", "safety", "technical", "return"} /\ UrlOf(w) # u)
                      => workers'[w] = workers[w]
            /\ onOutcome = "absent" => status' = status

\* C5: validateProductPage never rejects, whatever the renderer and the probes
\* do; a failure on one URL leaves the other URLs' outcomes and the set of
\* URLs with an outcome alone, and the map is still complete.
C5_FailuresAreContained == [](C5_NoRejection) /\ [][C5_FailureIsLocal]_vars

\* one render threw a value that is no Error, a probe of the other URL threw,
\* and the run resolved with both outcomes
C5_Witness ==
    /\ status = "resolved"
    /\ Len(urls) = 2
    /\ \E u \in Range(urls) : RenderFailed(u) /\ ~trace[u][1].error.isError
    /\ \E u \in Range(urls) :
          /\ Len(trace[u]) = 3
          /\ trace[u][2].res = "threw"
          /\ results[u].result = "KO"

\* C6: every outcome has empty comments exactly when its result is OK, and
\* carries the URL it was produced for.
C6_CommentsIffKo ==
    /\ \A o \in Produced : o.comments = << >> <=> o.result = "OK"
    /\ \A u \in DOMAIN results : results[u].url = u
    /\ \A w \in DOMAIN workers : workers[w].pc = "return" => workers[w].outcome.url = UrlOf(w)

C6_Witness ==
    /\ \E u \in DOMAIN results : results[u].result = "OK"
    /\ \E u \in DOMAIN results :
          /\ results[u].result = "KO"
          /\ RenderFailed(u) /\ trace[u][1].error.isError /\ trace[u][1].error.message = << >>

SameHostname(u, f) == toLowerCase(u.host) = toLowerCase(f.host)

SameNormalizedPath(u, f) == normalizePath(ParseUrl(u).pathname) = normalizePath(ParseUrl(f).pathname)

\* the render answered with a page that passes the redirect check
PassesRedirectCheck(u) ==
    /\ RenderSucceeded(u)
    /\ SameHostname(u, trace[u][1].finalUrl)
    /\ SameNormalizedPath(u, trace[u][1].finalUrl)
    /\ ~trace[u][1].redirected

\* all the conditions of an OK verdict, read from the record of operations
OkConditions(u) ==
    /\ u.scheme \in {"http", "https"}
    /\ PassesRedirectCheck(u)
    /\ trace[u][1].section
    /\ trace[u][1].safety
    /\ trace[u][1].technical
    /\ validatePdfLinks =>
          /\ Len(trace[u]) = 3
          /\ trace[u][2].op = "safety" /\ trace[u][2].res = "valid"
          /\ trace[u][3].op = "technical" /\ trace[u][3].res = "valid"

\* C7: the verdict is OK exactly when the URL is http(s), the render succeeds,
\* the redirect check passes, the section and both links are present and, with
\* validatePdfLinks, both probes are valid; otherwise it is KO.
C7_OkExactlyWhen ==
    \A u \in DOMAIN results :
        /\ results[u].result = "OK" <=> OkConditions(u)
        /\ results[u].result = "KO" <=> ~OkConditions(u)

C7_Witness ==
    /\ validatePdfLinks
    /\ \E u \in DOMAIN results : results[u].result = "OK" /\ Len(trace[u]) = 3
    /\ \E u \in DOMAIN results :
          /\ results[u].result = "KO"
          /\ Len(trace[u]) = 3 /\ trace[u][2].res = "valid" /\ trace[u][3].res = "invalid"

\* the URL does not parse, or its scheme is neither http nor https
NotHttp(u) == u.scheme = "" \/ u.scheme \notin {"http", "https"}

\* C8: for a URL that does not parse or is not http(s), the outcome is KO with
\* the invalid-URL comment and no network operation is ever issued.
C8_InvalidUrlNoNetwork ==
    \A u \in Range(urls) :
        NotHttp(u) =>
            /\ trace[u] = << >>
            /\ u \in DOMAIN results =>
                  results[u] = [url |-> u, result |-> "KO",
                                comments |-> <<"URL invalide ou protocole non supporte">>]
            /\ \A w \in Live : UrlOf(w) = u =>
                  /\ workers[w].pc = "return"
                  /\ workers[w].outcome = [url |-> u, result |-> "KO",
                                           comments |-> <<"URL invalide ou protocole non supporte">>]

C8_Witness ==
    /\ Malformed \in DOMAIN results
    /\ FtpUrl \in DOMAIN results
    /\ results[FtpUrl].result = "KO"

\* C9: when the render fails the outcome is KO, its comment is the
\* page-load-failed message around the failure's reason (the message of an
\* Error, 'Erreur inconnue' for any other thrown value), and the render is the
\* only operation of that URL.
C9_RenderFailureIsFinal ==
    \A u \in Range(urls) :
        RenderFailed(u) =>
            /\ Len(trace[u]) = 1
            /\ u \in DOMAIN results
            /\ results[u].url = u
            /\ results[u].result = "KO"
            /\ results[u].comments =
                  <<"Echec du chargement de la page (">>
                  \o (IF trace[u][1].error.isError THEN trace[u][1].error.message
                      ELSE <<"Erreur inconnue">>)
                  \o <<")">>

C9_Witness ==
    \E u \in DOMAIN results :
        /\ RenderFailed(u)
        /\ trace[u][1].error.isError
        /\ trace[u][1].error.message # << >>
        /\ validatePdfLinks

\* C10: after a successful render the validation goes on to the extraction
\* exactly when the final URL has the requested hostname and normalized path
\* and the page is not flagged redirected; otherwise the outcome is KO with
\* the final URL quoted, and the render is the only operation of that URL.
C10_RedirectCheck ==
    \A u \in Range(urls) :
        RenderSucceeded(u) =>
            IF PassesRedirectCheck(u)
            THEN u \in DOMAIN results =>
                    /\ results[u].comments = << >> \/ results[u].comments[1] # "Redirection vers "
                    /\ results[u].comments = MsgSectionMissing <=> ~trace[u][1].section
            ELSE /\ Len(trace[u]) = 1
                 /\ u \in DOMAIN results
                 /\ results[u] = [url |-> u, result |-> "KO",
                                  comments |-> <<"Redirection vers ">> \o UrlText(trace[u][1].finalUrl)]

\* the final URL differs from the requested one by its trailing slash only:
\* same hostname, same normalized path, flagged redirected
C10_Witness ==
    \E u \in DOMAIN results :
        /\ RenderSucceeded(u)
        /\ SameHostname(u, trace[u][1].finalUrl)
        /\ SameNormalizedPath(u, trace[u][1].finalUrl)
        /\ trace[u][1].redirected
        /\ results[u].result = "KO"

\* the render answered with a page that passes the redirect check and holds
\* the documentation section
SectionFound(u) == PassesRedirectCheck(u) /\ trace[u][1].section

\* the probes issued for u so far
Probes(u) == SelectSeq(trace[u], LAMBDA e : e.op \in {"safety", "technical"})

\* C11: when the rendered page (not redirected) has no documentation section,
\* the outcome is KO with the section-missing comment alone, and the render is
\* the only operation of that URL, with or without validatePdfLinks.
C11_NoSectionShortCircuits ==
    \A u \in Range(urls) :
        (PassesRedirectCheck(u) /\ ~trace[u][1].section) =>
            /\ Len(trace[u]) = 1
            /\ u \in DOMAIN results
            /\ results[u] =
                  [url |-> u, result |-> "KO",
                   comments |-> <<"Section product-documentation absente (fiche de securite et technique manquantes)">>]

C11_Witness ==
    /\ validatePdfLinks
    /\ \E u \in DOMAIN results :
          /\ PassesRedirectCheck(u) /\ ~trace[u][1].section
          /\ results[u].result = "KO"
    /\ \E u \in DOMAIN results : SectionFound(u) /\ Len(trace[u]) = 3

\* the answer of the probe `op` of u, "none" when no such probe was issued
ProbeResult(u, op) ==
    LET answers == SelectSeq(trace[u], LAMBDA e : e.op = op)
    IN  IF answers = << >> THEN "none" ELSE answers[1].res

\* the reason a sheet contributes to the comments: none, missing or invalid
SheetReason(present, answer, missing, invalid) ==
    IF ~present THEN <<missing>>
    ELSE IF validatePdfLinks /\ answer # "valid" THEN <<invalid>>
    ELSE << >>

\* C12: with the section present, a finished validation has looked at both
\* sheets: its comments are the safety reason (missing or invalid, never
\* both), then the technical reason (missing or invalid, never both), joined
\* by " ; "; with validatePdfLinks a present technical link has been probed
\* whatever the safety sheet's result.
C12_BothSheetsReported ==
    \A u \in DOMAIN results :
        SectionFound(u) =>
            LET safety == SheetReason(trace[u][1].safety, ProbeResult(u, "safety"),
                                      "Fiche de securite manquante",
                                      "Lien vers la fiche de securite invalide")
                technical == SheetReason(trace[u][1].technical, ProbeResult(u, "technical"),
                                         "Fiche technique manquante",
                                         "Lien vers la fiche technique invalide")
            IN  /\ results[u].comments =
                      IF safety # << >> /\ technical # << >>
                      THEN safety \o <<" ; ">> \o technical
                      ELSE safety \o technical
                /\ (validatePdfLinks /\ trace[u][1].technical) =>
                      ProbeResult(u, "technical") \in {"valid", "invalid", "threw"}

\* the safety link answered 404 and the technical link is absent; and both
\* links were probed and both found invalid
C12_Witness ==
    /\ \E u \in DOMAIN results :
          /\ SectionFound(u)
          /\ ProbeResult(u, "safety") = "invalid"
          /\ ~trace[u][1].technical
          /\ results[u].comments =
                <<"Lien vers la fiche de securite invalide", " ; ", "Fiche technique manquante">>
    /\ \E u \in DOMAIN results :
          /\ ProbeResult(u, "safety") \in {"invalid", "threw"}
          /\ ProbeResult(u, "technical") \in {"invalid", "threw"}

PresentLinks(u) ==
    (IF trace[u][1].safety THEN 1 ELSE 0) + (IF trace[u][1].technical THEN 1 ELSE 0)

\* C13: without validatePdfLinks no probe is ever issued and a present link
\* leaves no comment; with it, a probe is issued only for a present link, at
\* most once per sheet, and a finished validation that found the section has
\* issued as many probes as there are present links.
C13_ProbesOnlyWhenEnabled ==
    \A u \in Range(urls) :
        /\ ~validatePdfLinks => Probes(u) = << >>
        /\ Probes(u) # << >> =>
              /\ SectionFound(u)
              /\ ProbeResult(u, "safety") # "none" => trace[u][1].safety
              /\ ProbeResult(u, "technical") # "none" => trace[u][1].technical
              /\ Len(Probes(u)) <= PresentLinks(u)
        /\ (u \in DOMAIN results /\ SectionFound(u)) =>
              /\ Len(Probes(u)) = IF validatePdfLinks THEN PresentLinks(u) ELSE 0
              /\ (~validatePdfLinks /\ trace[u][1].safety) =>
                    \A i \in DOMAIN results[u].comments :
                        results[u].comments[i] \notin {"Fiche de securite manquante",
                                                       "Lien vers la fiche de securite invalide"}
              /\ (~validatePdfLinks /\ trace[u][1].technical) =>
                    \A i \in DOMAIN results[u].comments :
                        results[u].comments[i] \notin {"Fiche technique manquante",
                                                       "Lien vers la fiche technique invalide"}

\* with the flag, one URL's page has one link and one probe, the other's has
\* two links and two probes
C13_Witness ==
    /\ validatePdfLinks
    /\ \E u \in DOMAIN results :
          SectionFound(u) /\ PresentLinks(u) = 1 /\ Len(Probes(u)) = 1
    /\ \E u \in DOMAIN results :
          SectionFound(u) /\ PresentLinks(u) = 2 /\ Len(Probes(u)) = 2

\* new URL(href, baseUrl) throws: an absolute href that does not parse, or a
\* relative href with a base that does not parse
Unresolvable(baseUrl, href) ==
    IF Len(href) >= 2 /\ href[2] = "://" THEN Len(href) < 3 ELSE Len(baseUrl) < 3 \/ baseUrl[2] # "://"

\* C14: a call of isValidPdfLink never settles with an exception; its value is
\* false when the href cannot be resolved, when the request fails, and when
\* the response has a non-success status, whatever its headers and final URL.
C14_ProbeNeverRaises ==
    probe.pc = "settled" =>
        /\ ~probe.result.raised
        /\ probe.result.value \in BOOLEAN
        /\ Unresolvable(probe.baseUrl, probe.href) => ~probe.result.value
        /\ probe.response.threw => ~probe.result.value
        /\ ~probe.response.ok => ~probe.result.value

\* a 404 whose headers and final URL all say PDF
C14_Witness ==
    /\ probe.pc = "settled"
    /\ ~probe.response.threw
    /\ ~probe.response.ok
    /\ probe.response.contentType = <<"Application/PDF", "; charset=binary">>
    /\ probe.response.contentDisposition = <<"attachment; filename=", "a", ".PDF">>
    /\ probe.response.url = <<"https", "://", "s", "/", "x", ".pdf">>
    /\ ~probe.result.value

\* the path of a URL text: what follows the host, up to the first "?" or "#"
RECURSIVE PathEnd(_, _)
PathEnd(text, i) ==
    IF i >= Len(text) \/ text[i + 1] \in {"?", "#"} THEN i ELSE PathEnd(text, i + 1)

PathEndsInPdf(text) ==
    /\ Len(text) >= 3
    /\ text[PathEnd(text, 3)] \in {".pdf", ".PDF"}

\* C15: for a response with a success status the value is true exactly when
\* the content-type contains "application/pdf" (in any case), or the
\* content-disposition contains "application/pdf" or ".pdf", or the path of
\* the final URL ends in ".pdf"; ".pdf" in the query string alone is no signal.
C15_ThreeSignals ==
    (probe.pc = "settled" /\ ~probe.response.threw /\ probe.response.ok) =>
        (probe.result.value <=>
            \/ probe.response.contentType = <<"Application/PDF", "; charset=binary">>
            \/ probe.response.contentDisposition \in
                  {<<"attachment; filename=", "a", ".PDF">>, <<"inline; type=", "application/pdf">>}
            \/ PathEndsInPdf(probe.response.url))

\* the status is one that fetchPage retries: 429 or 5xx
Retryable(code) == code = 429 \/ (code >= 500 /\ code <= 599)

\* C16: after a transport failure or a response with status 429 or 5xx that
\* is not the last allowed attempt, fetchPage goes on to another attempt;
\* a response with any other non-ok status ends the call at once: an error
\* naming the status is raised, no sleep follows and no request is made again.
C16_NonRetryableIsTerminal ==
    fetcher.log # << >> =>
        LET last == Last(fetcher.log)
        IN  /\ (last.kind = "status" /\ ~Retryable(last.status)) =>
                  /\ fetcher.pc = "raised"
                  /\ fetcher.error = [isError |-> TRUE,
                                       message |-> <<"statut HTTP ", "404">>]
                  /\ \A i \in 1 .. Len(fetcher.log) - 1 :
                        fetcher.log[i].kind # "status" \/ Retryable(fetcher.log[i].status)
            /\ ((last.kind = "failure" \/ (last.kind = "status" /\ Retryable(last.status)))
                /\ Len(fetcher.log) < 5) =>
                  fetcher.pc \in {"sleep", "request"}

\* C17: one call of fetchPage issues between 1 and 5 requests; it returns at
\* the first request answered by a page and issues none after it; without a
\* page it raises once the fifth request has been answered, never before, and
\* its caller then returns KO with the page-load-failed comment around the
\* error's message.
C17_AtMostFiveRequests ==
    /\ MAX_ATTEMPTS = 5
    /\ fetcher.attempt \in 1 .. 5
    /\ Len(fetcher.log) = IF fetcher.pc = "request" THEN fetcher.attempt - 1 ELSE fetcher.attempt
    /\ \A i \in DOMAIN fetcher.log :
          fetcher.log[i].kind = "page" => (i = Len(fetcher.log) /\ fetcher.pc = "returned")
    /\ fetcher.pc = "returned" =>
          /\ Last(fetcher.log).kind = "page"
          /\ fetcher.validation.pc \in {"fromURL", "return"}
    /\ fetcher.pc = "raised" =>
          /\ Len(fetcher.log) = 5
          /\ fetcher.error.isError
          /\ fetcher.validation.pc = "return"
          /\ fetcher.validation.outcome =
                [url |-> fetcher.url, result |-> "KO",
                 comments |-> <<"Echec du chargement de la page (">>
                              \o fetcher.error.message \o <<")">>]
    /\ fetcher.pc \in {"request", "sleep"} => fetcher.validation.pc = "fetchPage"

\* the first attempt failed, the last was answered 503, and the caller has its KO
C17_Witness ==
    /\ fetcher.pc = "raised"
    /\ fetcher.log[1].kind = "failure"
    /\ fetcher.log[5].kind = "status" /\ fetcher.log[5].status = 503
    /\ fetcher.validation.outcome.result = "KO"

\* C18: the sleep that follows failed attempt k lasts w + jitter with
\* 0 <= jitter <= 0.2 * w, where w is 500, 1000, 2000, 4000, 8000 ms for
\* k = 1..5, after a status as after a thrown failure; after a retryable
\* status with a retry-after header of 2 seconds, w is 2000 ms.
C18_BackoffSchedule ==
    fetcher.pc = "sleep" =>
        LET k == fetcher.wait.after
            w == IF fetcher.wait.line = 83 /\ fetcher.wait.retryAfter = <<"2">> THEN 2000
                 ELSE CASE k = 1 -> 500
                        [] k = 2 -> 1000
                        [] k = 3 -> 2000
                        [] k = 4 -> 4000
                        [] k = 5 -> 8000
        IN  /\ k \in 1 .. 5
            /\ k = Len(fetcher.log)
            /\ Last(fetcher.log).kind \in {"status", "failure"}
            /\ fetcher.wait.line = 83 <=>
                  (Last(fetcher.log).kind = "status" /\ Retryable(Last(fetcher.log).status))
            /\ fetcher.wait.baseDelay = w
            /\ fetcher.wait.jitter >= 0
            /\ 5 * fetcher.wait.jitter <= w

\* the second attempt was answered 429 with retry-after: 2
C18_Witness ==
    /\ fetcher.pc = "sleep"
    /\ fetcher.wait.after = 2
    /\ Last(fetcher.log).status = 429
    /\ fetcher.wait.retryAfter = <<"2">>
    /\ fetcher.wait.baseDelay = 2000
    /\ fetcher.wait.jitter > 0

\* C19: when fetchPage gives up, the error it raises is the failure of the
\* final attempt: the error thrown in that attempt, or an error naming the
\* status of that attempt's response.
C19_FinalFailureIsRaised ==
    fetcher.pc = "raised" =>
        LET last == Last(fetcher.log)
        IN  fetcher.error =
                IF last.kind = "failure"
                THEN [isError |-> TRUE, message |-> last.error.message]
                ELSE [isError |-> TRUE,
                      message |-> <<"statut HTTP ",
                                    CASE last.status = 404 -> "404"
                                      [] last.status = 429 -> "429"
                                      [] last.status = 503 -> "503">>]

\* the callers that have called getBrowser for their current render
Served == {c \in DOMAIN browser.callers : browser.callers[c].pc \in {"getBrowser", "rendering"}}

\* C20: as long as shutdownBrowser has not been called, chromium.launch is
\* invoked at most once, and exactly once as soon as one caller has called
\* getBrowser; every caller awaits the promise of that launch and every
\* Browser received is the one it started.  In general a launch happens only
\* while no handle is stored: at most once more than the handle was reset.
C20_LaunchedOnce ==
    /\ browser.launches <= browser.resets + 1
    /\ browser.shutdown.calls = 0 =>
          /\ browser.launches <= 1
          /\ browser.launches = Len(browser.promises)
          /\ Served # {} => browser.launches = 1 /\ browser.browserPromise = 1
          /\ \A c \in Served : browser.callers[c].promise = 1
          /\ \A c \in DOMAIN browser.callers :
                browser.callers[c].pc = "rendering" => browser.callers[c].handle = 1
          /\ \A c \in DOMAIN browser.callers :
                browser.callers[c].renders > 0 => browser.launches = 1

\* all the callers are in their first call of getBrowser while the launch is
\* still pending
C20_Witness ==
    /\ browser.shutdown.calls = 0
    /\ Cardinality(DOMAIN browser.callers) >= 3
    /\ \A c \in DOMAIN browser.callers :
          browser.callers[c].pc = "getBrowser" /\ browser.callers[c].renders = 0
    /\ browser.promises = <<"pending">>
    /\ browser.launches = 1

\* the comments of a validation that found the section, read from the answers
\* of u's operations
SheetComments(u) ==
    LET safety == SheetReason(trace[u][1].safety, ProbeResult(u, "safety"),
                              "Fiche de securite manquante",
                              "Lien vers la fiche de securite invalide")
        technical == SheetReason(trace[u][1].technical, ProbeResult(u, "technical"),
                                 "Fiche technique manquante",
                                 "Lien vers la fiche technique invalide")
    IN  IF safety # << >> /\ technical # << >>
        THEN safety \o <<" ; ">> \o technical
        ELSE safety \o technical

\* the outcome of u as a function of u, validatePdfLinks and the answers of
\* u's own operations: no worker, no cursor, no other URL, no order
OutcomeOfResponses(u) ==
    IF NotHttp(u)
    THEN [url |-> u, result |-> "KO", comments |-> <<"URL invalide ou protocole non supporte">>]
    ELSE IF RenderFailed(u)
    THEN [url |-> u, result |-> "KO",
          comments |-> <<"Echec du chargement de la page (">>
                       \o (IF trace[u][1].error.isError THEN trace[u][1].error.message
                           ELSE <<"Erreur inconnue">>)
                       \o <<")">>]
    ELSE IF ~PassesRedirectCheck(u)
    THEN [url |-> u, result |-> "KO",
          comments |-> <<"Redirection vers ">> \o UrlText(trace[u][1].finalUrl)]
    ELSE IF ~trace[u][1].section
    THEN [url |-> u, result |-> "KO",
          comments |-> <<"Section product-documentation absente (fiche de securite et technique manquantes)">>]
    ELSE [url |-> u,
          result |-> IF SheetComments(u) = << >> THEN "OK" ELSE "KO",
          comments |-> SheetComments(u)]

\* C21: every entry of the map is the value of one function of the URL, the
\* run configuration and the answers that URL's render and probes received;
\* a returned map holds such an entry for every input URL.  So two runs with
\* the same inputs and the same answers return the same entries, whatever the
\* interleaving and the completion order.
C21_MapIsFunctionOfResponses ==
    /\ \A u \in DOMAIN results : NoPending(u) /\ results[u] = OutcomeOfResponses(u)
    /\ status = "resolved" => DOMAIN results = Range(urls)

\* a returned map of two rendered pages whose second URL finished first
C21_Witness ==
    /\ status = "resolved"
    /\ Len(urls) = 2
    /\ Len(notified) = 2
    /\ notified[1].outcome.url = urls[2]
    /\ RenderSucceeded(urls[1]) /\ RenderSucceeded(urls[2])
    /\ Len(trace[urls[1]]) = 3
    /\ results[urls[1]] # results[urls[2]]

\* C22: normalizePath applied to its own value returns that value, for every
\* pathname; normalizePath("/a//b/") = normalizePath("/a/b"); and
\* normalizePath("/") = "/".
C22_NormalizeIdempotent ==
    /\ pureCall.pc = "returned twice" => pureCall.again = pureCall.value
    /\ (pureCall.pc = "returned" /\ pureCall.pathname = <<"/", "a", "/", "/", "b", "/">>) =>
          /\ pureCall.value = normalizePath(<<"/", "a", "/", "b">>)
          /\ pureCall.value = <<"/", "a", "/", "b">>
    /\ (pureCall.pc = "returned" /\ pureCall.pathname = <<"/">>) => pureCall.value = <<"/">>

\* a pathname with a run of slashes, an upper-case letter and trailing
\* slashes has been normalized twice
C22_Witness ==
    /\ pureCall.pc = "returned twice"
    /\ pureCall.pathname = <<"/", "A", "/", "/", "b", "/">>
    /\ pureCall.value = <<"/", "a", "/", "b">>
    /\ pureCall.again = <<"/", "a", "/", "b">>

\* the pathname is made of slashes only
OnlySlashes(pathname) == pathname # << >> /\ \A i \in DOMAIN pathname : pathname[i] = "/"

\* C27: runs of slashes are collapsed for every pathname including the root:
\* a pathname and its form with every run of slashes collapsed normalize to
\* the same value, a pathname made of slashes only normalizes to "/", and the
\* value of a pathname that begins with "/" is never empty.
C27_CollapsesEverywhere ==
    pureCall.pc = "returned" =>
        /\ pureCall.value = normalizePath(CollapseSlashes(pureCall.pathname))
        /\ OnlySlashes(pureCall.pathname) => pureCall.value = <<"/">>
        /\ (pureCall.pathname # << >> /\ pureCall.pathname[1] = "/") => pureCall.value # << >>

\* the operations issued for u so far, by name
Ops(u) == [i \in DOMAIN trace[u] |-> trace[u][i].op]

\* the workers suspended in an operation of u
Suspended(u) == {w \in InFlight : UrlOf(w) = u}

\* C23: for one URL, at most one operation is outstanding at any instant and
\* it is the last one issued; the operations are one render, then at most the
\* safety probe, then at most the technical probe; a probe is issued only
\* after the render has answered with a page, the technical probe of a page
\* with a safety link only after the safety probe has answered; and the
\* outstanding operation is the one its single worker is suspended in.
C23_SequentialSteps ==
    \A u \in Range(urls) :
        /\ \A i \in DOMAIN trace[u] : trace[u][i].res = "pending" => i = Len(trace[u])
        /\ Ops(u) \in {<< >>, <<"render">>, <<"render", "safety">>, <<"render", "technical">>,
                       <<"render", "safety", "technical">>}
        /\ Len(trace[u]) >= 2 => trace[u][1].res = "page"
        /\ (Len(trace[u]) >= 2 /\ trace[u][1].safety) => trace[u][2].op = "safety"
        /\ Len(trace[u]) = 3 => trace[u][2].res # "pending"
        /\ Cardinality(Suspended(u)) <= 1
        /\ \A w \in Suspended(u) :
              trace[u] # << >> /\ Last(trace[u]).res = "pending" /\ Last(trace[u]).op = workers[w].pc
        /\ (trace[u] # << >> /\ Last(trace[u]).res = "pending") => Suspended(u) # {}

\* one URL is in its technical probe after its render and its safety probe
\* were answered, while the render of the other URL is still outstanding
C23_Witness ==
    /\ Len(urls) = 2
    /\ Ops(urls[1]) = <<"render">> /\ trace[urls[1]][1].res = "pending"
    /\ Ops(urls[2]) = <<"render", "safety", "technical">>
    /\ trace[urls[2]][2].res = "invalid"
    /\ trace[urls[2]][3].res = "pending"

\* a worker was ended by an exception of the callback (line 37)
CallbackThrew == \E w \in DOMAIN workers : workers[w].pc = "threw37"

\* every URL but the first is claimed and has its outcome in the map
OthersRecorded ==
    /\ currentIndex = Len(urls)
    /\ \A i \in 2 .. Len(urls) : urls[i] \in DOMAIN results

Terminated ==
    /\ status = "resolved"
    /\ \A w \in DOMAIN workers : workers[w].pc = "done"
    /\ currentIndex = Len(urls)
    /\ DOMAIN results = Range(urls)
    /\ \A u \in Range(urls) : NoPending(u)

C26_JoinedInInputOrder ==
    /\ run.pc = "writeResults" =>
          /\ status = "resolved"
          /\ Len(run.outcomes) = Len(urls)
          /\ \A i \in DOMAIN urls :
                /\ run.outcomes[i].url = urls[i]
                /\ run.outcomes[i] = results[urls[i]]
                /\ run.outcomes[i].comments # <<"Validation indisponible">>
    /\ run.pc # "writeResults" => run.outcomes = << >>

\* the second URL finished first and the list is in input order
C26_Witness ==
    /\ run.pc = "writeResults"
    /\ Len(urls) = 2
    /\ Len(notified) = 2
    /\ notified[1].outcome.url = urls[2]
    /\ run.outcomes[1].url = urls[1]
    /\ run.outcomes[2].url = urls[2]
    /\ run.outcomes[1].result = "OK"

\* the two URL strings have the same host name and the same path as texts:
\* they differ at most in scheme, port, query string and fragment
DifferOnlyInIgnoredParts(a, b) ==
    /\ HostName(a.host) = HostName(b.host)
    /\ PathOnly(a.path) = PathOnly(b.path)

\* C28 as stated: the value is the comparison of the hostnames and of the
\* normalized pathnames; it is false when either URL does not parse; and it
\* is true for any two URLs that parse and differ only in scheme, port,
\* query string or fragment.
C28_IgnoresSchemePortQueryFragment ==
    pureCall.pc = "returned" =>
        LET requested == ParseUrl(pureCall.requestedUrl)
            final == ParseUrl(pureCall.finalUrl)
        IN  /\ (~requested.ok \/ ~final.ok) => ~pureCall.value
            /\ (requested.ok /\ final.ok) =>
                  /\ pureCall.value <=>
                        /\ requested.hostname = final.hostname
                        /\ normalizePath(requested.pathname) = normalizePath(final.pathname)
                  /\ DifferOnlyInIgnoredParts(pureCall.requestedUrl, pureCall.finalUrl) =>
                        pureCall.value

\* C28, amended: as stated, for two URLs that parse and differ only in
\* scheme, port, query string or fragment when both schemes are http or
\* https (the empty path of any other scheme is not "/").
C28_IgnoresPartsOfHttpUrls ==
    pureCall.pc = "returned" =>
        LET requested == ParseUrl(pureCall.requestedUrl)
            final == ParseUrl(pureCall.finalUrl)
        IN  /\ (~requested.ok \/ ~final.ok) => ~pureCall.value
            /\ (requested.ok /\ final.ok) =>
                  /\ pureCall.value <=>
                        /\ requested.hostname = final.hostname
                        /\ normalizePath(requested.pathname) = normalizePath(final.pathname)
                  /\ (/\ DifferOnlyInIgnoredParts(pureCall.requestedUrl, pureCall.finalUrl)
                      /\ requested.protocol \in {"http", "https"}
                      /\ final.protocol \in {"http", "https"}) =>
                        pureCall.value

\* http://s:8080/a?q and https://s/a#f are the same product
C28_Witness ==
    /\ pureCall.pc = "returned"
    /\ pureCall.requestedUrl = Url("http", <<"s", ":8080">>, <<"/", "a", "?", "q">>)
    /\ pureCall.finalUrl = Url("https", <<"s">>, <<"/", "a", "#", "f">>)
    /\ pureCall.value

\* C29: the page is flagged redirected exactly when the text of the final
\* URL differs from the text of the requested URL; the redirect check is
\* passed exactly when the two texts are equal; and any other final URL, even
\* with the requested hostname and normalized path, gives the outcome KO
\* with the redirection comment, the render being the URL's only operation.
C29_FlaggedUnlessIdentical ==
    \A u \in Range(urls) :
        RenderSucceeded(u) =>
            LET final == trace[u][1].finalUrl
            IN  /\ trace[u][1].redirected <=> UrlText(final) # UrlText(u)
                /\ PassesRedirectCheck(u) <=> UrlText(final) = UrlText(u)
                /\ UrlText(final) # UrlText(u) =>
                      /\ Len(trace[u]) = 1
                      /\ u \in DOMAIN results
                      /\ results[u].result = "KO"
                      /\ results[u].comments = <<"Redirection vers ">> \o UrlText(final)

\* https://s/a ended at https://s/a?q and http://s/A/ at http://s/a/: same
\* hostname, same normalized path, both KO as redirections
C29_Witness ==
    /\ net = "moved"
    /\ RenderSucceeded(ProductA) /\ RenderSucceeded(ProductB)
    /\ trace[ProductA][1].finalUrl = Url("https", <<"s">>, <<"/", "a", "?", "q">>)
    /\ trace[ProductB][1].finalUrl = Url("http", <<"s">>, <<"/", "a", "/">>)
    /\ SameHostname(ProductA, trace[ProductA][1].finalUrl)
    /\ SameNormalizedPath(ProductA, trace[ProductA][1].finalUrl)
    /\ SameNormalizedPath(ProductB, trace[ProductB][1].finalUrl)
    /\ results[ProductA].result = "KO" /\ results[ProductA].comments[1] = "Redirection vers "
    /\ results[ProductB].result = "KO" /\ results[ProductB].comments[1] = "Redirection vers "

\* the positions, in document order, of the anchors that are children of the
\* section and whose class list holds every required class
MatchingAnchors(descendants, requiredClasses) ==
    {i \in DOMAIN descendants :
        /\ descendants[i].depth = 1
        /\ descendants[i].element.tag = "a"
        /\ \A c \in requiredClasses :
              \E k \in DOMAIN descendants[i].element.class : descendants[i].element.class[k] = c}

\* C30: the value is decided by the first anchor, in document order, that is
\* a child of the section and carries every required class: the value is
\* its href trimmed, or null when it has no href or a blank one, whatever
\* the anchors after it; it is null when there is no such anchor, whatever
\* the deeper anchors and the other elements.
C30_FirstMatchingChildAnchor ==
    pureCall.pc = "returned" =>
        LET matching == MatchingAnchors(pureCall.descendants, pureCall.requiredClasses)
        IN  IF matching = {} THEN pureCall.value = << >>
            ELSE LET first == CHOOSE i \in matching : \A j \in matching : i <= j
                     href == pureCall.descendants[first].element.href
                 IN  /\ pureCall.value = SelectSeq(href, LAMBDA c : c # " ")
                     /\ (href = << >> \/ href = <<" ">>) => pureCall.value = << >>

\* a deeper safety anchor with an href, then a child safety anchor with a
\* blank href, then a child safety anchor with an href in blanks: null
C30_Witness ==
    /\ pureCall.pc = "returned"
    /\ pureCall.requiredClasses = SafetyClasses
    /\ Len(pureCall.descendants) = 3
    /\ pureCall.descendants[1] = Descendant(2, Element("a", SafetyClassAttr, <<"deep">>))
    /\ pureCall.descendants[2] = Descendant(1, Element("a", SafetyClassAttr, <<" ">>))
    /\ pureCall.descendants[3].element.href = <<" ", "y", " ">>
    /\ pureCall.value = << >>


\* C33: fetchPage performs no backoff wait after its final attempt: whenever
\* the call sleeps, the attempt the sleep follows is not the last one
\* (MAX_ATTEMPTS), whether that attempt threw or was answered by a retryable
\* status.
C33_NoWaitAfterLastAttempt ==
    fetcher.pc = "sleep" => fetcher.wait.after < MAX_ATTEMPTS


\* worker w settles the validation of its URL in this step (the outcome enters
\* the map) and the callback, if any, returns
FinishesQuietly(w) ==
    /\ ~Settled(w)
    /\ UrlOf(w) \notin DOMAIN results
    /\ UrlOf(w) \in DOMAIN results'
    /\ workers'[w].pc # "threw37"

\* the callback throws in this step, called by worker w
CallbackThrows(w) == ~Settled(w) /\ workers'[w].pc = "threw37"

\* C34: when the onOutcome callback throws for a URL, the outcome of that URL
\* (the one the callback was called with) is in the result map, the worker
\* that called it is settled for good and claims nothing more, and
\* validateUrls is rejected and stays so: it never returns the map.  The other
\* workers go on after the rejection: a worker that then settles a validation
\* claims the next unclaimed URL, if there is one, and ends only if there is
\* none.
C34_CallbackThrowRejectsOthersGoOn ==
    [][\A w \in DOMAIN workers :
          /\ CallbackThrows(w) =>
                /\ UrlOf(w) \in DOMAIN results'
                /\ results'[UrlOf(w)] = Last(notified').outcome
                /\ Last(notified').outcome.url = UrlOf(w)
                /\ status' = "rejected"
                /\ currentIndex' = currentIndex
          /\ workers[w].pc = "threw37" => workers'[w] = workers[w]
          /\ status = "rejected" => status' = "rejected"
          /\ (status = "rejected" /\ FinishesQuietly(w)) =>
                IF currentIndex < Len(urls)
                THEN /\ workers'[w].index = currentIndex
                     /\ workers'[w].pc \notin {"done", "threw34", "threw37"}
                     /\ currentIndex' = currentIndex + 1
                     /\ invocations'[urls[currentIndex + 1]] = 1
                ELSE workers'[w].pc = "done"]_vars

\* the callback threw at the first URL of an input longer than the pool, and
\* after that rejection the other workers claimed the URLs left and settled
\* every one of them
C34_Witness ==
    /\ Len(urls) > MAX_CONCURRENT_REQUESTS
    /\ workers # << >>
    /\ workers[1].pc = "threw37"
    /\ urls[1] \in DOMAIN results
    /\ status = "rejected"
    /\ currentIndex = Len(urls)
    /\ DOMAIN results = Range(urls)
    /\ \E w \in DOMAIN workers : workers[w].pc = "done"


\* the validation has passed the redirect check and searched the
\* documentation section
Extracted ==
    /\ fetcher.pc = "returned"
    /\ ~RedirectCheckFails(fetcher.url, fetcher.page)
    /\ fetcher.validation.pc = "return"
    /\ fetcher.validation.outcome.comments # MsgLoadFailed(<<"fetch failed">>)
    /\ fetcher.validation.outcome.comments # MsgLoadFailed(<<"Erreur inconnue">>)

\* C31: the page of a URL is obtained once per validation, and the HTML in
\* which the documentation section is searched is the HTML of the response
\* whose final URL and redirected flag passed the redirect check.
C31_PageObtainedOnce ==
    /\ fetcher.loads <= 1
    /\ Extracted => fetcher.loaded = fetcher.page.html


\* the launch whose promise is stored in browserPromise has failed
LaunchFailed ==
    /\ browser.browserPromise # 0
    /\ browser.promises[browser.browserPromise] = "rejected"

\* caller c calls getBrowser in this step
CallsGetBrowser(c) ==
    browser.callers[c].pc # "getBrowser" /\ browser'.callers[c].pc = "getBrowser"

\* a call of shutdownBrowser ends in this step
ShutdownEnds ==
    \/ browser'.shutdown.calls = browser.shutdown.calls + 1 /\ browser'.shutdown.pc = "idle"
    \/ browser.shutdown.pc # "idle" /\ browser'.shutdown.pc = "idle"

\* C32: a failed launch is remembered.  While the promise of a failed launch
\* is stored, getBrowser returns it and launches nothing, a caller that calls
\* getBrowser is given that promise, and a caller that awaits it throws out of
\* renderProductPage without a Browser; validateProductPage turns any error
\* thrown by the render into a returned KO outcome with the page-load-failed
\* comment, it does not throw.  The stored promise changes only by a launch
\* when there is none, or by shutdownBrowser, which empties it.
\* shutdownBrowser never raises (it is idle, awaits the promise or awaits the
\* close, nothing else), changes nothing but its call count when nothing is
\* stored, and ends with nothing stored, so that getBrowser then launches.
C32_LaunchFailureIsRemembered ==
    /\ [](/\ LaunchFailed => getBrowser(browser) = browser
          /\ browser.shutdown.pc \in {"idle", "browserPromise", "close"}
          /\ \A error \in RenderErrors \cup {Error(<<"browserType.launch: failed">>)} :
                LET v == AfterRenderThrows(ProductA, error)
                IN  /\ v.pc = "return"
                    /\ v.outcome.result = "KO"
                    /\ v.outcome.comments =
                          MsgLoadFailed(IF error.isError THEN error.message
                                        ELSE <<"Erreur inconnue">>))
    /\ [][/\ \A c \in DOMAIN browser.callers :
                /\ (LaunchFailed /\ CallsGetBrowser(c)) =>
                      /\ browser'.launches = browser.launches
                      /\ browser'.promises = browser.promises
                      /\ browser'.browserPromise = browser.browserPromise
                      /\ browser'.callers[c].promise = browser.browserPromise
                /\ (/\ browser.callers[c].pc = "getBrowser"
                    /\ browser.promises[browser.callers[c].promise] = "rejected"
                    /\ browser'.callers[c] # browser.callers[c]) =>
                      /\ browser'.callers[c].pc = "idle"
                      /\ browser'.callers[c].handle = 0
                      /\ browser'.callers[c].renders = browser.callers[c].renders + 1
          /\ browser'.browserPromise # browser.browserPromise =>
                IF browser.browserPromise = 0
                THEN /\ browser'.launches = browser.launches + 1
                     /\ browser'.browserPromise = browser'.launches
                     /\ browser'.promises[browser'.browserPromise] = "pending"
                ELSE /\ browser.shutdown.pc \in {"browserPromise", "close"}
                     /\ browser'.shutdown.pc = "idle"
                     /\ browser'.browserPromise = 0
                     /\ browser'.resets = browser.resets + 1
          /\ (browser'.shutdown.calls # browser.shutdown.calls /\ browser.browserPromise = 0) =>
                browser' = [browser EXCEPT !.shutdown.calls = @ + 1]
          /\ ShutdownEnds =>
                /\ browser'.browserPromise = 0
                /\ getBrowser(browser').launches = browser'.launches + 1
                /\ getBrowser(browser').browserPromise = browser'.launches + 1]_vars

\* the first launch failed; two callers were given its promise and threw;
\* shutdownBrowser then emptied the handle and the third caller's getBrowser
\* launched anew
C32_Witness ==
    /\ browser.launches = 2
    /\ browser.promises[1] = "rejected"
    /\ browser.resets = 1
    /\ browser.shutdown.pc = "idle"
    /\ Cardinality({c \in DOMAIN browser.callers :
                       /\ browser.callers[c].pc = "idle"
                       /\ browser.callers[c].renders = 1
                       /\ browser.callers[c].promise = 1
                       /\ browser.callers[c].handle = 0}) >= 2
    /\ \E c \in DOMAIN browser.callers :
          browser.callers[c].pc = "getBrowser" /\ browser.callers[c].promise = 2

====
